---------------------------- MODULE Spec2Model ----------------------------
(***************************************************************************)
(* Paid-time computation engine and roster resolution of the work-hours    *)
(* tracker (src/main.py).                                                  *)
(*                                                                         *)
(* Conventions of the model                                                *)
(*   - an "HH:MM" string is the pair <<h, m>>; Python's None and the empty *)
(*     string (both falsy) are the empty tuple None;                       *)
(*   - a calendar date (canonical ISO "YYYY-MM-DD", whose string order is  *)
(*     the chronological order) is its day number, an integer;             *)
(*   - an Optional row or an Optional[int] pair is a record with a flag    *)
(*     (found / ok) saying whether the value is there.                     *)
(*                                                                         *)
(* The specifications share the variables:                                 *)
(*   SpecPW   compute_paid_window run statement block by statement block   *)
(*            on every input of a bounded set;                             *)
(*   SpecPay  the per-entry payable computation of get_week                *)
(*            (minutes_paid_between + effective_break_minutes) on stored   *)
(*            entries and a roster table built by roster_create;           *)
(*   SpecRoster  the roster tables under roster_create, roster_delete and  *)
(*            the roster_day_lookup endpoint (roster_day_patch, which      *)
(*            no property here reads, is left out);                        *)
(*   SpecMult multiplier_for_date on every bank-holiday table and date of  *)
(*            a bounded set;                                               *)
(*   Spec     the clock state machine: the clock endpoints and the manual  *)
(*            entry endpoints, one action per handler, on one day whose    *)
(*            wall clock only moves forward, after a day that may have     *)
(*            left a break running;                                        *)
(*   SpecHoliday  the same machine with patch_bh and get_week, on one      *)
(*            roster;                                                      *)
(*   SpecBreak  the clock endpoints with a wall clock that can be set,     *)
(*            so that the time since a break started can be negative;      *)
(*   SpecOut  the punches around the official OUT of shift A;              *)
(*   SpecFail the clock endpoints when a handler dies between two writes;  *)
(*   SpecRace two requests of one user whose reads and writes interleave;  *)
(*   SpecWeek the clock endpoints of a user without a week, or whose weeks *)
(*            do not cover today; SpecEdit adds the manual edit to it;     *)
(*   SpecUsers  the requests of two users in any order;                    *)
(*   SpecRound  round_ceil and round_floor applied twice;                  *)
(*   SpecDrift  compute_paid_window applied to its own result.             *)
(***************************************************************************)
EXTENDS Integers, Sequences, FiniteSets, TLC

VARIABLES
    pc,             \* position of the running call
    args,           \* arguments of the running call / the stored entry read
    loc,            \* local variables of compute_paid_window
    ret,            \* value returned by the last query (NoRet after a roster write)
    rosters,        \* table rosters
    roster_days,    \* table roster_days
    weeks,          \* table weeks
    next_roster_id, \* AUTOINCREMENT sequence of rosters.id
    next_week_id,   \* AUTOINCREMENT sequence of weeks.id
    entries,        \* table entries
    clock_state,    \* table clock_state
    bank_holidays,  \* table bank_holidays
    today,          \* date.today(), a day number
    now             \* the time of day datetime.now() reads, in minutes

vars ==
    <<pc, args, loc, ret, rosters, roster_days, weeks, next_roster_id, next_week_id,
      entries, clock_state, bank_holidays, today, now>>

dbvars ==
    <<rosters, roster_days, weeks, next_roster_id, next_week_id,
      entries, clock_state, bank_holidays>>

\* the wall clock
wall == <<today, now>>

------------------------------------------------------------------------------
(* Company rules *)

None == <<>>

SHIFT_A_IN == <<9, 45>>

SHIFT_A_OUT == <<19, 0>>

SHIFT_B_IN == <<10, 45>>

SHIFT_B_OUT == <<20, 0>>

BREAK_FIXED_MIN == 60

TOLERANCE_MIN == 5

ROUND_STEP_MIN == 15

DAY_MIN == 1440

\* "10:15", the literal cutoff of detect_shift
DETECT_CUTOFF == <<10, 15>>

\* "days must have 7 items"
ROSTER_DAYS == 7

------------------------------------------------------------------------------
(* Bounds of the model *)

\* real punches are taken within Spread minutes of each catalog time
Spread == 16

\* recorded break minutes are 0, BreakStep, ..., MaxBreakSteps * BreakStep
BreakStep == 45

MaxBreakSteps == 2

\* rosters ever created in one behaviour
MaxRosters == 2

\* roster start dates are 0..MaxStart
MaxStart == 1

------------------------------------------------------------------------------
(* Time arithmetic *)

Abs(x) == IF x < 0 THEN -x ELSE x

Max(a, b) == IF a >= b THEN a ELSE b

\* Python's truthiness of an Optional[str]
Truthy(s) == s # None

hhmm_to_min(hhmm) == hhmm[1] * 60 + hhmm[2]

min_to_hhmm(m) == <<m \div 60, m % 60>>

round_floor(mins) == (mins \div ROUND_STEP_MIN) * ROUND_STEP_MIN

\* mutant of round_ceil: always moves to the following mark
round_ceil_NextMark(mins) == ((mins \div ROUND_STEP_MIN) + 1) * ROUND_STEP_MIN

round_ceil(mins) == ((mins + ROUND_STEP_MIN - 1) \div ROUND_STEP_MIN) * ROUND_STEP_MIN

------------------------------------------------------------------------------
(* compute_paid_window, one operator per statement block *)

NoMeta ==
    [snap_in |-> FALSE, snap_out |-> FALSE, cap_in |-> FALSE, cap_out |-> FALSE,
     round_in |-> FALSE, round_out |-> FALSE,
     official_in |-> None, official_out |-> None, authorized |-> FALSE]

NoLoc == [rin |-> 0, rout |-> 0, paid_in |-> 0, paid_out |-> 0, meta |-> NoMeta]

\* the meta dictionary as first built
PW_Meta(a) ==
    [NoMeta EXCEPT !.official_in = a.official_in,
                   !.official_out = a.official_out,
                   !.authorized = a.authorized]

\* "if not real_in or not real_out: return None, None, meta"
PW_Missing(a) == ~Truthy(a.real_in) \/ ~Truthy(a.real_out)

\* parse the punches, normalise an overnight span, start from the real times
PW_Begin(a) ==
    LET rin  == hhmm_to_min(a.real_in)
        rout0 == hhmm_to_min(a.real_out)
        rout == IF rout0 < rin THEN rout0 + DAY_MIN ELSE rout0
    IN  [rin |-> rin, rout |-> rout, paid_in |-> rin, paid_out |-> rout,
         meta |-> PW_Meta(a)]

\* mutant of PW_InRules: the tolerance test is strict
PW_InRules_StrictTolerance(a, L) ==
    IF Truthy(a.official_in)
    THEN LET off_in == hhmm_to_min(a.official_in)
         IN  IF Abs(L.rin - off_in) < TOLERANCE_MIN
             THEN [L EXCEPT !.paid_in = off_in, !.meta.snap_in = TRUE]
             ELSE IF (~a.authorized) /\ (L.rin < off_in - TOLERANCE_MIN)
                  THEN [L EXCEPT !.paid_in = off_in, !.meta.cap_in = TRUE]
                  ELSE L
    ELSE L

\* --- IN rules ---
PW_InRules(a, L) ==
    IF Truthy(a.official_in)
    THEN LET off_in == hhmm_to_min(a.official_in)
         IN  IF Abs(L.rin - off_in) <= TOLERANCE_MIN
             THEN [L EXCEPT !.paid_in = off_in, !.meta.snap_in = TRUE]
             ELSE IF (~a.authorized) /\ (L.rin < off_in - TOLERANCE_MIN)
                  THEN [L EXCEPT !.paid_in = off_in, !.meta.cap_in = TRUE]
                  ELSE L
    ELSE L

\* the official OUT, moved to the next day when it is before the official IN
PW_OffOut(a) ==
    LET off_out == hhmm_to_min(a.official_out)
        overnight == IF Truthy(a.official_in)
                     THEN off_out < hhmm_to_min(a.official_in)
                     ELSE FALSE
    IN  IF overnight THEN off_out + DAY_MIN ELSE off_out

\* mutant of PW_OutRules: a late OUT is capped whether authorized or not
PW_OutRules_CapAuthorized(a, L) ==
    IF Truthy(a.official_out)
    THEN LET off_out == PW_OffOut(a)
         IN  IF Abs(L.rout - off_out) <= TOLERANCE_MIN
             THEN [L EXCEPT !.paid_out = off_out, !.meta.snap_out = TRUE]
             ELSE IF L.rout > off_out + TOLERANCE_MIN
                  THEN [L EXCEPT !.paid_out = off_out, !.meta.cap_out = TRUE]
                  ELSE L
    ELSE L

\* mutant of PW_OutRules: the cap is tested before the snap
PW_OutRules_CapFirst(a, L) ==
    IF Truthy(a.official_out)
    THEN LET off_out == PW_OffOut(a)
         IN  IF (~a.authorized) /\ (L.rout > off_out)
             THEN [L EXCEPT !.paid_out = off_out, !.meta.cap_out = TRUE]
             ELSE IF Abs(L.rout - off_out) <= TOLERANCE_MIN
                  THEN [L EXCEPT !.paid_out = off_out, !.meta.snap_out = TRUE]
                  ELSE L
    ELSE L

\* --- OUT rules ---
PW_OutRules(a, L) ==
    IF Truthy(a.official_out)
    THEN LET off_out == PW_OffOut(a)
         IN  IF Abs(L.rout - off_out) <= TOLERANCE_MIN
             THEN [L EXCEPT !.paid_out = off_out, !.meta.snap_out = TRUE]
             ELSE IF (~a.authorized) /\ (L.rout > off_out + TOLERANCE_MIN)
                  THEN [L EXCEPT !.paid_out = off_out, !.meta.cap_out = TRUE]
                  ELSE L
    ELSE L

\* mutant of PW_RoundIn: the flag is set whenever the boundary is rounded
PW_RoundIn_AlwaysFlag(L) ==
    IF ~L.meta.snap_in
    THEN [L EXCEPT !.meta.round_in = TRUE, !.paid_in = round_ceil(L.paid_in)]
    ELSE L

\* --- 15-min rounding ---: IN rounds up unless snapped
PW_RoundIn(L) ==
    IF ~L.meta.snap_in
    THEN LET paid_in2 == round_ceil(L.paid_in)
         IN  [L EXCEPT !.meta.round_in = (paid_in2 # L.paid_in), !.paid_in = paid_in2]
    ELSE L

\* OUT rounds down unless snapped
PW_RoundOut(L) ==
    IF ~L.meta.snap_out
    THEN LET paid_out2 == round_floor(L.paid_out)
         IN  [L EXCEPT !.meta.round_out = (paid_out2 # L.paid_out), !.paid_out = paid_out2]
    ELSE L

\* mutant of PW_Clamp: the final clamp is missing
PW_Clamp_Missing(L) == L

\* "final safety: never negative"
PW_Clamp(L) ==
    IF L.paid_out < L.paid_in THEN [L EXCEPT !.paid_out = L.paid_in] ELSE L

\* the returned triple; ok = FALSE stands for (None, None, meta)
PW_Return(L) == [ok |-> TRUE, paid_in |-> L.paid_in, paid_out |-> L.paid_out, meta |-> L.meta]

PW_ReturnNone(a) == [ok |-> FALSE, paid_in |-> 0, paid_out |-> 0, meta |-> PW_Meta(a)]

compute_paid_window(a) ==
    IF PW_Missing(a)
    THEN PW_ReturnNone(a)
    ELSE PW_Return(PW_Clamp(PW_RoundOut(PW_RoundIn(
             PW_OutRules(a, PW_InRules(a, PW_Begin(a)))))))

------------------------------------------------------------------------------
(* The roster tables.  A roster row is [id, user_id, week_number, start_date],
   a roster_days row [user_id, roster_id, work_date, shift_in, shift_out,
   day_off] (its own id is left out: roster_id and work_date identify it,
   the seven days of a roster having distinct dates), a weeks row
   [id, user_id, week_number, start_date] (hourly_rate left out: no roster
   or paid-minutes computation reads it).  The tables entries, clock_state
   and bank_holidays are described with the clock state machine. *)

Db ==
    [rosters |-> rosters, roster_days |-> roster_days, weeks |-> weeks,
     next_roster_id |-> next_roster_id, next_week_id |-> next_week_id,
     entries |-> entries, clock_state |-> clock_state,
     bank_holidays |-> bank_holidays]

Db0 ==
    [rosters |-> {}, roster_days |-> {}, weeks |-> {},
     next_roster_id |-> 1, next_week_id |-> 1,
     entries |-> {}, clock_state |-> {}, bank_holidays |-> {}]

SetDb(d) ==
    /\ rosters' = d.rosters
    /\ roster_days' = d.roster_days
    /\ weeks' = d.weeks
    /\ next_roster_id' = d.next_roster_id
    /\ next_week_id' = d.next_week_id
    /\ entries' = d.entries
    /\ clock_state' = d.clock_state
    /\ bank_holidays' = d.bank_holidays

\* the row of a roster day for a day code
DayRow(uid, roster_id, ymd, code) ==
    [user_id |-> uid, roster_id |-> roster_id, work_date |-> ymd,
     shift_in  |-> CASE code = "A" -> SHIFT_A_IN [] code = "B" -> SHIFT_B_IN [] OTHER -> None,
     shift_out |-> CASE code = "A" -> SHIFT_A_OUT [] code = "B" -> SHIFT_B_OUT [] OTHER -> None,
     day_off   |-> IF code = "OFF" THEN 1 ELSE 0]

\* a missing row (fetchone() returning None)
RowNone == [found |-> FALSE, roster_id |-> 0, shift_in |-> None, shift_out |-> None, day_off |-> 0]

\* the joined rows of the query: roster days of the user on that date whose
\* roster exists, each with its roster
RosterJoin(d, uid, ymd) ==
    {<<rd, r>> \in d.roster_days \X d.rosters :
        rd.user_id = uid /\ rd.work_date = ymd /\ r.id = rd.roster_id}

\* the selected columns of a joined row (roster_id kept to tell the rows apart)
RosterRow(j) ==
    [found |-> TRUE, roster_id |-> j[2].id,
     shift_in |-> j[1].shift_in, shift_out |-> j[1].shift_out, day_off |-> j[1].day_off]

\* mutant of roster_for_date: ORDER BY r.id DESC (the most recently created)
roster_for_date_ByCreation(d, uid, ymd) ==
    LET J == RosterJoin(d, uid, ymd)
    IN  IF J = {} THEN {RowNone}
        ELSE {RosterRow(j) : j \in {k \in J : \A o \in J : k[2].id >= o[2].id}}

\* ORDER BY r.start_date DESC LIMIT 1: the rows fetchone() may return.  SQL
\* leaves the order of rows with equal start_date open, so each of them is
\* a possible result.
roster_for_date(d, uid, ymd) ==
    LET J == RosterJoin(d, uid, ymd)
    IN  IF J = {} THEN {RowNone}
        ELSE {RosterRow(j) : j \in {k \in J : \A o \in J : k[2].start_date >= o[2].start_date}}

\* ensure_week_from_roster: the week of that number, created when missing
ensure_week_from_roster(d, uid, week_number, start_date) ==
    IF \E w \in d.weeks : w.user_id = uid /\ w.week_number = week_number
    THEN d
    ELSE [d EXCEPT
            !.weeks = @ \cup {[id |-> d.next_week_id, user_id |-> uid,
                               week_number |-> week_number, start_date |-> start_date]},
            !.next_week_id = @ + 1]

\* roster_create on tables d; days is the sequence of the seven day codes
RosterCreate(d, uid, week_number, start_date, days) ==
    IF \E r \in d.rosters :
          r.user_id = uid /\ r.week_number = week_number /\ r.start_date = start_date
    THEN d
    ELSE LET d1 == ensure_week_from_roster(d, uid, week_number, start_date)
             roster_id == d1.next_roster_id
         IN  [d1 EXCEPT
                !.rosters = @ \cup {[id |-> roster_id, user_id |-> uid,
                                     week_number |-> week_number,
                                     start_date |-> start_date]},
                !.next_roster_id = @ + 1,
                !.roster_days = @ \cup
                    {DayRow(uid, roster_id, start_date + (i - 1), days[i]) :
                        i \in 1..ROSTER_DAYS}]

\* roster_delete on tables d
RosterDelete(d, uid, roster_id) ==
    [d EXCEPT
        !.roster_days = {rd \in @ : ~(rd.roster_id = roster_id /\ rd.user_id = uid)},
        !.rosters = {r \in @ : ~(r.id = roster_id /\ r.user_id = uid)}]

------------------------------------------------------------------------------
(* Input sets *)

CatalogTimes == {SHIFT_A_IN, SHIFT_A_OUT, SHIFT_B_IN, SHIFT_B_OUT}

\* minutes of day of the real punches: around every catalog time, the two
\* sides of the detect_shift cutoff, and both ends of the day
PunchMins ==
    {m \in 0..(DAY_MIN - 1) :
        \/ \E c \in CatalogTimes : Abs(m - hhmm_to_min(c)) <= Spread
        \/ m \in {0, hhmm_to_min(DETECT_CUTOFF), hhmm_to_min(DETECT_CUTOFF) + 1, DAY_MIN - 1}}

Punches == {min_to_hhmm(m) : m \in PunchMins}

OptPunches == Punches \cup {None}

BreakValues == {k * BreakStep : k \in 0..MaxBreakSteps}

NoRet == None

Users == {1, 2}

WeekNumbers == {1, 2}

Codes == {"A", "B", "OFF"}

\* the day codes of a request: the same code on all seven days
DayPatterns == {[i \in 1..ROSTER_DAYS |-> c] : c \in Codes}

StartDates == 0..MaxStart

\* the dates asked about: covered by the rosters starting on day 0 only, by
\* every roster, by none
QueryDates == {0, MaxStart, MaxStart + ROSTER_DAYS}

\* the tables as the initial state of a behaviour
InitDb(d) ==
    /\ rosters = d.rosters
    /\ roster_days = d.roster_days
    /\ weeks = d.weeks
    /\ next_roster_id = d.next_roster_id
    /\ next_week_id = d.next_week_id
    /\ entries = d.entries
    /\ clock_state = d.clock_state
    /\ bank_holidays = d.bank_holidays

EmptyDb == InitDb(Db0)

\* the wall clock of the specifications that never read it
InitWall ==
    /\ today = 0
    /\ now = 0

------------------------------------------------------------------------------
(* SpecPW: compute_paid_window on every input *)

PWArgs ==
    [official_in : {None, SHIFT_A_IN, SHIFT_B_IN},
     official_out : {None, SHIFT_A_OUT, SHIFT_B_OUT},
     real_in : OptPunches,
     real_out : OptPunches,
     authorized : BOOLEAN]

InitPW ==
    /\ pc = "call"
    /\ args \in PWArgs
    /\ loc = NoLoc
    /\ ret = NoRet
    /\ EmptyDb
    /\ InitWall

\* lines 948-971: meta, the early return, the parsed punches
pw_begin ==
    /\ pc = "call"
    /\ IF PW_Missing(args)
       THEN /\ ret' = PW_ReturnNone(args)
            /\ pc' = "done"
            /\ loc' = loc
       ELSE /\ loc' = PW_Begin(args)
            /\ pc' = "rules"
            /\ ret' = ret
    /\ UNCHANGED <<args, dbvars, wall>>

\* lines 973-1001: the IN rules, then the OUT rules
pw_rules ==
    /\ pc = "rules"
    /\ loc' = PW_OutRules(args, PW_InRules(args, loc))
    /\ pc' = "round"
    /\ UNCHANGED <<args, ret, dbvars, wall>>

\* lines 1003-1015: 15-minute rounding of the boundaries that were not snapped
pw_round ==
    /\ pc = "round"
    /\ loc' = PW_RoundOut(PW_RoundIn(loc))
    /\ pc' = "clamp"
    /\ UNCHANGED <<args, ret, dbvars, wall>>

\* lines 1017-1021: the final clamp and the return
pw_return ==
    /\ pc = "clamp"
    /\ loc' = PW_Clamp(loc)
    /\ ret' = PW_Return(loc')
    /\ pc' = "done"
    /\ UNCHANGED <<args, dbvars, wall>>

NextPW == pw_begin \/ pw_rules \/ pw_round \/ pw_return

SpecPW == InitPW /\ [][NextPW]_vars

------------------------------------------------------------------------------
(* Properties of compute_paid_window (SpecPW) *)

\* the inputs of the running call, in minutes, as the caller sees them
BothPunches == Truthy(args.real_in) /\ Truthy(args.real_out)

RealInMin == hhmm_to_min(args.real_in)

\* the real out-time after overnight normalisation
RealOutMin ==
    IF hhmm_to_min(args.real_out) < RealInMin
    THEN hhmm_to_min(args.real_out) + DAY_MIN
    ELSE hhmm_to_min(args.real_out)

OffInMin == hhmm_to_min(args.official_in)

OffOutMin == hhmm_to_min(args.official_out)

InWithinTolerance == Truthy(args.official_in) /\ Abs(RealInMin - OffInMin) <= TOLERANCE_MIN

OutWithinTolerance == Truthy(args.official_out) /\ Abs(RealOutMin - OffOutMin) <= TOLERANCE_MIN

IsMultiple(x) == x % ROUND_STEP_MIN = 0

\* C1: whenever both real punches are present, the window returned by
\* compute_paid_window has paid_out >= paid_in.
C1_PaidOutNotBeforePaidIn ==
    (pc = "done" /\ BothPunches) => (ret.ok /\ ret.paid_out >= ret.paid_in)

\* the clamp acted: the rounded window was inverted and the returned one is empty
C1_Witness ==
    /\ pc = "done"
    /\ BothPunches
    /\ ret.ok
    /\ loc.paid_out = loc.paid_in
    /\ round_floor(RealOutMin) < round_ceil(RealInMin)
    /\ ~ret.meta.snap_in /\ ~ret.meta.snap_out /\ ~ret.meta.cap_in /\ ~ret.meta.cap_out

C4_InBeforeRounding == IF loc.meta.cap_in THEN OffInMin ELSE RealInMin

C4_OutBeforeRounding == IF loc.meta.cap_out THEN OffOutMin ELSE RealOutMin

CatalogShiftGiven ==
    <<args.official_in, args.official_out>> \in
        {<<SHIFT_A_IN, SHIFT_A_OUT>>, <<SHIFT_B_IN, SHIFT_B_OUT>>}

\* C5 (as claimed, on the catalog shifts): a boundary whose real punch is
\* within 5 minutes of the official time is returned as exactly the official
\* time, whatever the later steps (cap, rounding, final clamp) do.
C5_SnapNeverAdjusted ==
    (pc = "done" /\ BothPunches /\ CatalogShiftGiven) =>
        /\ InWithinTolerance => ret.paid_in = OffInMin
        /\ OutWithinTolerance => ret.paid_out = OffOutMin

\* C5 (amended): a boundary within 5 minutes of the official time is snapped
\* and neither capped nor rounded; the returned paid IN is then exactly the
\* official IN, and the returned paid OUT is the official OUT unless the paid
\* IN is later than the official OUT, where the final clamp returns paid IN.
C5_SnapPrecedence ==
    (pc = "done" /\ BothPunches) =>
        /\ InWithinTolerance =>
             /\ ret.paid_in = OffInMin
             /\ ret.meta.snap_in /\ ~ret.meta.cap_in /\ ~ret.meta.round_in
        /\ OutWithinTolerance =>
             /\ ret.meta.snap_out /\ ~ret.meta.cap_out /\ ~ret.meta.round_out
             /\ ret.paid_out = Max(OffOutMin, ret.paid_in)

\* an unauthorized OUT at exactly official + 5, snapped and returned unchanged,
\* next to an IN that was capped
C5_Witness ==
    /\ pc = "done"
    /\ BothPunches
    /\ ~args.authorized
    /\ Truthy(args.official_out) /\ RealOutMin = OffOutMin + TOLERANCE_MIN
    /\ ret.meta.snap_out /\ ret.meta.cap_in
    /\ ret.paid_out = OffOutMin

------------------------------------------------------------------------------
(* SpecRoster: the roster tables under the roster endpoints *)

InitRoster ==
    /\ pc = "idle"
    /\ args = None
    /\ loc = NoLoc
    /\ ret = NoRet
    /\ EmptyDb
    /\ InitWall

\* POST /api/roster
roster_create(uid, week_number, start_date, days) ==
    /\ next_roster_id <= MaxRosters
    /\ SetDb(RosterCreate(Db, uid, week_number, start_date, days))
    /\ pc' = "idle"
    /\ ret' = NoRet
    /\ UNCHANGED <<args, loc, wall>>

\* DELETE /api/roster/{roster_id}; an unknown roster is answered 404
roster_delete(uid, roster_id) ==
    /\ \E r \in rosters : r.id = roster_id /\ r.user_id = uid
    /\ SetDb(RosterDelete(Db, uid, roster_id))
    /\ pc' = "idle"
    /\ ret' = NoRet
    /\ UNCHANGED <<args, loc, wall>>

\* GET /api/roster/day: the roster day roster_for_date resolves
roster_day_lookup(uid, ymd) ==
    /\ \E ro \in roster_for_date(Db, uid, ymd) :
          ret' = [user_id |-> uid, work_date |-> ymd, ro |-> ro]
    /\ pc' = "looked"
    /\ UNCHANGED <<args, loc, dbvars, wall>>

NextRoster ==
    \/ \E uid \in Users, wk \in WeekNumbers, start \in StartDates, days \in DayPatterns :
          roster_create(uid, wk, start, days)
    \/ \E uid \in Users, id \in 1..MaxRosters : roster_delete(uid, id)
    \/ \E uid \in Users, ymd \in QueryDates : roster_day_lookup(uid, ymd)

SpecRoster == InitRoster /\ [][NextRoster]_vars

------------------------------------------------------------------------------
(* The payable computation *)

\* mutant of detect_shift: the cutoff itself already belongs to shift B
detect_shift_StrictCutoff(time_in) ==
    IF ~Truthy(time_in) THEN None
    ELSE IF hhmm_to_min(time_in) < hhmm_to_min(DETECT_CUTOFF)
         THEN <<SHIFT_A_IN, SHIFT_A_OUT>>
         ELSE <<SHIFT_B_IN, SHIFT_B_OUT>>

\* the (in, out) pair of the detected shift, None without a clock-in
detect_shift(time_in) ==
    IF ~Truthy(time_in) THEN None
    ELSE IF hhmm_to_min(time_in) <= hhmm_to_min(DETECT_CUTOFF)
         THEN <<SHIFT_A_IN, SHIFT_A_OUT>>
         ELSE <<SHIFT_B_IN, SHIFT_B_OUT>>

\* mutant of effective_break_minutes: the recorded break, without the floor
effective_break_minutes_Recorded(t_in, t_out, break_real) ==
    IF ~Truthy(t_in) \/ ~Truthy(t_out) THEN 0 ELSE break_real

effective_break_minutes(t_in, t_out, break_real) ==
    IF ~Truthy(t_in) \/ ~Truthy(t_out) THEN 0 ELSE Max(BREAK_FIXED_MIN, break_real)

\* mutant of PaidMinutes: the difference is not floored at zero
PaidMinutes_NoFloor(paid_in_min, paid_out_min, br) ==
    Max(0, paid_out_min - paid_in_min) - br

\* "worked = max(0, paid_out_min - paid_in_min)" ... "paid = max(0, worked - br)"
PaidMinutes(paid_in_min, paid_out_min, br) ==
    Max(0, Max(0, paid_out_min - paid_in_min) - br)

\* the official shift minutes_paid_between hands to compute_paid_window for
\* the roster row ro: the row's shift unless it is missing or a day off, then
\* whatever detect_shift finds for the real clock-in
MPB_Official(ro, time_in_real) ==
    LET official_in  == IF ro.found /\ ro.day_off = 0 THEN ro.shift_in ELSE None
        official_out == IF ro.found /\ ro.day_off = 0 THEN ro.shift_out ELSE None
        sh == detect_shift(time_in_real)
    IN  IF (~Truthy(official_in) \/ ~Truthy(official_out)) /\ Truthy(sh)
        THEN sh
        ELSE <<official_in, official_out>>

\* what minutes_paid_between returns when it returns early
MPB_Zero(reason) ==
    [paid |-> 0, reason |-> reason, meta |-> NoMeta,
     paid_in_hhmm |-> None, paid_out_hhmm |-> None, break_effective |-> 0]

\* minutes_paid_between once roster_for_date has returned the row ro
minutes_paid_between(ro, time_in_real, time_out_real, break_real, authorized) ==
    IF ~Truthy(time_in_real) \/ ~Truthy(time_out_real)
    THEN MPB_Zero("missing_in_or_out")
    ELSE LET off == MPB_Official(ro, time_in_real)
             w == compute_paid_window(
                      [official_in |-> off[1], official_out |-> off[2],
                       real_in |-> time_in_real, real_out |-> time_out_real,
                       authorized |-> authorized])
             br == effective_break_minutes(time_in_real, time_out_real, break_real)
         IN  IF ~w.ok
             THEN MPB_Zero("no_paid_window")
             ELSE [paid |-> PaidMinutes(w.paid_in, w.paid_out, br),
                   reason |-> None,
                   meta |-> w.meta,
                   paid_in_hhmm |-> min_to_hhmm(w.paid_in % DAY_MIN),
                   paid_out_hhmm |-> min_to_hhmm(w.paid_out % DAY_MIN),
                   break_effective |-> br]

------------------------------------------------------------------------------
(* SpecPay: get_week's computation for one stored entry *)

\* the roster tables: none, one roster of user 1 (all A, all B or all OFF),
\* or one roster of another user; each built by roster_create
PayDbs ==
    {Db0}
    \cup {RosterCreate(Db0, 1, 1, 0, days) : days \in DayPatterns}
    \cup {RosterCreate(Db0, 2, 1, 0, [i \in 1..ROSTER_DAYS |-> "A"])}

\* stored entries of user 1, on the first day of the roster and on the first
\* day after it
PayEntries ==
    [user_id : {1},
     work_date : {0, ROSTER_DAYS},
     time_in : OptPunches,
     time_out : OptPunches,
     break_minutes : BreakValues,
     extra_authorized : {0, 1}]

InitPay ==
    /\ pc = "call"
    /\ args \in PayEntries
    /\ loc = NoLoc
    /\ ret = NoRet
    /\ \E d \in PayDbs : InitDb(d)
    /\ InitWall

\* the loop body of get_week for the entry args: its paid minutes with their
\* meta, and its effective break
get_week_row ==
    /\ pc = "call"
    /\ \E ro \in roster_for_date(Db, args.user_id, args.work_date) :
          ret' = [ro |-> ro,
                  m |-> minutes_paid_between(ro, args.time_in, args.time_out,
                                             args.break_minutes,
                                             args.extra_authorized = 1),
                  break_eff |-> effective_break_minutes(args.time_in, args.time_out,
                                                        args.break_minutes)]
    /\ pc' = "done"
    /\ UNCHANGED <<args, loc, dbvars, wall>>

NextPay == get_week_row

SpecPay == InitPay /\ [][NextPay]_vars

------------------------------------------------------------------------------
(* Properties of the payable computation (SpecPay) *)

EntryBothPunches == Truthy(args.time_in) /\ Truthy(args.time_out)

EntryInMin == hhmm_to_min(args.time_in)

\* the real out-time after overnight normalisation
EntryOutMin ==
    IF hhmm_to_min(args.time_out) < EntryInMin
    THEN hhmm_to_min(args.time_out) + DAY_MIN
    ELSE hhmm_to_min(args.time_out)

\* the roster days of the entry's user on the entry's date
EntryRosterDays ==
    {rd \in roster_days : rd.user_id = args.user_id /\ rd.work_date = args.work_date}

\* C6 (as claimed): when the entry's roster day is a day off, the payable
\* computation neither snaps nor caps, paid IN is the real in-time rounded up
\* to 15 minutes and paid OUT the real out-time rounded down to 15 minutes
\* (not before paid IN), whether authorized or not.
C6_DayOffOnlyRounds ==
    (pc = "done" /\ EntryBothPunches /\ ret.ro.found /\ ret.ro.day_off = 1) =>
        /\ ~ret.m.meta.snap_in /\ ~ret.m.meta.snap_out
        /\ ~ret.m.meta.cap_in /\ ~ret.m.meta.cap_out
        /\ ret.m.paid_in_hhmm = min_to_hhmm(round_ceil(EntryInMin) % DAY_MIN)
        /\ ret.m.paid_out_hhmm =
              min_to_hhmm(Max(round_floor(EntryOutMin), round_ceil(EntryInMin)) % DAY_MIN)

\* C7: with both punches, when the entry's date has a roster day that is not
\* a day off, the official shift used is that roster day's shift-in/shift-out;
\* when it has no roster day at all, the official shift is shift A
\* (09:45-19:00) for a real clock-in <= 10:15 and shift B (10:45-20:00)
\* otherwise.
C7_ShiftResolution ==
    (pc = "done" /\ EntryBothPunches) =>
        /\ (ret.ro.found /\ ret.ro.day_off = 0) =>
             /\ \E rd \in EntryRosterDays :
                   /\ rd.day_off = 0
                   /\ ret.m.meta.official_in = rd.shift_in
                   /\ ret.m.meta.official_out = rd.shift_out
             /\ ret.m.meta.official_in = ret.ro.shift_in
             /\ ret.m.meta.official_out = ret.ro.shift_out
        /\ EntryRosterDays = {} =>
             /\ ~ret.ro.found
             /\ EntryInMin <= 615 =>
                  (ret.m.meta.official_in = <<9, 45>> /\ ret.m.meta.official_out = <<19, 0>>)
             /\ EntryInMin > 615 =>
                  (ret.m.meta.official_in = <<10, 45>> /\ ret.m.meta.official_out = <<20, 0>>)

\* a B roster day used although the clock-in (at the cutoff) would detect A
C7_WitnessRoster ==
    /\ pc = "done"
    /\ EntryBothPunches
    /\ ret.ro.found /\ ret.ro.day_off = 0
    /\ EntryInMin = 615
    /\ ret.m.meta.official_in = SHIFT_B_IN /\ ret.m.meta.official_out = SHIFT_B_OUT

\* C9: the effective break is 60 when both punches exist and the recorded
\* break is at most 60, the recorded break when both exist and it is above
\* 60, and 0 when either punch is missing; the paid-minutes computation
\* uses the same value.
C9_EffectiveBreak ==
    pc = "done" =>
        /\ (EntryBothPunches /\ args.break_minutes <= 60) => ret.break_eff = 60
        /\ (EntryBothPunches /\ args.break_minutes > 60) => ret.break_eff = args.break_minutes
        /\ ~EntryBothPunches => ret.break_eff = 0
        /\ ret.m.break_effective = ret.break_eff

\* a recorded break above the statutory 60 minutes, kept as it is
C9_Witness ==
    /\ pc = "done"
    /\ EntryBothPunches
    /\ args.break_minutes > 60
    /\ ret.break_eff = args.break_minutes

\* the window compute_paid_window returns for the entry and the official
\* shift reported in the meta
C10_Window ==
    compute_paid_window(
        [official_in |-> ret.m.meta.official_in, official_out |-> ret.m.meta.official_out,
         real_in |-> args.time_in, real_out |-> args.time_out,
         authorized |-> (args.extra_authorized = 1)])

\* C10: for an entry with both punches the payable minutes are
\* max(0, (paid_out - paid_in) - effective break) over the window of
\* compute_paid_window, and never negative.
C10_PayableMinutes ==
    (pc = "done" /\ EntryBothPunches) =>
        LET span == (C10_Window.paid_out - C10_Window.paid_in) - ret.break_eff
        IN  /\ ret.m.paid >= 0
            /\ span >= 0 => ret.m.paid = span
            /\ span < 0 => ret.m.paid = 0

\* a window shorter than the effective break: zero payable minutes
C10_WitnessShort ==
    /\ pc = "done"
    /\ EntryBothPunches
    /\ C10_Window.paid_out > C10_Window.paid_in
    /\ C10_Window.paid_out - C10_Window.paid_in < ret.break_eff
    /\ ret.m.paid = 0

------------------------------------------------------------------------------
(* Properties of the roster resolution (SpecRoster) *)

\* the rosters of the asking user that hold a roster day for the asked date
Covering ==
    {r \in rosters :
        /\ r.user_id = ret.user_id
        /\ \E rd \in roster_days :
              rd.roster_id = r.id /\ rd.user_id = ret.user_id /\ rd.work_date = ret.work_date}

\* the row returned is the roster day of roster r on the asked date
ReturnedDayOf(r) ==
    /\ ret.ro.found
    /\ ret.ro.roster_id = r.id
    /\ \E rd \in roster_days :
          /\ rd.roster_id = r.id /\ rd.user_id = ret.user_id /\ rd.work_date = ret.work_date
          /\ ret.ro.shift_in = rd.shift_in
          /\ ret.ro.shift_out = rd.shift_out
          /\ ret.ro.day_off = rd.day_off

\* the rosters holding the asked date start on pairwise different dates
DistinctStarts == \A r \in Covering, o \in Covering : r.start_date = o.start_date => r = o

\* C8 (as claimed, for rosters of different start dates): the roster day
\* resolved for a date is the one of the most recently created roster of the
\* user that holds the date.
C8_MostRecentlyCreatedWins ==
    (pc = "looked" /\ Covering # {} /\ DistinctStarts) =>
        \E r \in Covering : ReturnedDayOf(r) /\ \A o \in Covering : r.id >= o.id

\* C8 (amended): the roster day resolved for a date is the one of a roster
\* of the user with the latest start date among those that hold the date,
\* whatever the order of creation; no roster day is found exactly when no
\* roster of the user holds the date.
C8_LatestStartWins ==
    pc = "looked" =>
        /\ Covering # {} =>
             \E r \in Covering :
                ReturnedDayOf(r) /\ \A o \in Covering : r.start_date >= o.start_date
        /\ Covering = {} => ~ret.ro.found

\* the roster created first starts later and is the one resolved, its day
\* differing from the day of the roster created after it
C8_Witness ==
    /\ pc = "looked"
    /\ \E r1 \in Covering, r2 \in Covering :
          /\ r1.id < r2.id
          /\ r1.start_date > r2.start_date
          /\ ReturnedDayOf(r1)
          /\ \E rd \in roster_days :
                /\ rd.roster_id = r2.id /\ rd.work_date = ret.work_date
                /\ rd.day_off # ret.ro.day_off

------------------------------------------------------------------------------
(* The pay multiplier.  A REAL multiplier is held in ten-thousandths, so
   1.0787 is 10787.  A bank_holidays row is [id, user_id, bh_date, paid]
   (year, name, paid_date, paid_week and applicable left out: the year is
   that of bh_date, and nothing modelled reads the others); the unique index
   ux_bh_unique allows one row for a user and a date. *)

\* the default of the environment variable PUBLIC_HOLIDAY_MULT
PUBLIC_HOLIDAY_MULT == 10787

\* "1.5 if d.weekday() == 6"
MULT_SUNDAY == 15000

\* "else 1.0"
MULT_NORMAL == 10000

\* date.weekday(): Monday is 0 and Sunday 6; day number 0 is a Sunday
weekday(ymd) == (ymd + 6) % 7

BhRow(id, uid, ymd, paid) == [id |-> id, user_id |-> uid, bh_date |-> ymd, paid |-> paid]

\* mutant of multiplier_for_date: the Sunday rule is tested first
multiplier_for_date_SundayFirst(d, uid, work_date) ==
    IF weekday(work_date) = 6 THEN MULT_SUNDAY
    ELSE IF \E row \in d.bank_holidays :
               row.user_id = uid /\ row.bh_date = work_date /\ row.paid = 1
         THEN PUBLIC_HOLIDAY_MULT
         ELSE MULT_NORMAL

\* the row of the user for the date (at most one exists) decides first, then
\* the weekday; the except branch is for a date string that does not parse,
\* which no day number stands for
multiplier_for_date(d, uid, work_date) ==
    IF \E row \in d.bank_holidays :
          row.user_id = uid /\ row.bh_date = work_date /\ row.paid = 1
    THEN PUBLIC_HOLIDAY_MULT
    ELSE IF weekday(work_date) = 6 THEN MULT_SUNDAY ELSE MULT_NORMAL

------------------------------------------------------------------------------
(* SpecMult: multiplier_for_date on every table and date *)

\* the dates asked about and holding bank holidays: one of each weekday
MultDates == 0..(ROSTER_DAYS - 1)

BhStatus == {"none", "unpaid", "paid"}

\* the bank-holiday tables: on one date, each user has no row, an unpaid row
\* or a paid row
BhTables ==
    {{BhRow(uid, uid, ymd, IF f[uid] = "paid" THEN 1 ELSE 0) :
          uid \in {u \in Users : f[u] # "none"}} :
       f \in [Users -> BhStatus], ymd \in MultDates}

InitMult ==
    /\ pc = "call"
    /\ args \in [uid : Users, work_date : MultDates]
    /\ loc = NoLoc
    /\ ret = NoRet
    /\ \E t \in BhTables : InitDb([Db0 EXCEPT !.bank_holidays = t])
    /\ InitWall

multiplier_lookup ==
    /\ pc = "call"
    /\ ret' = [mult |-> multiplier_for_date(Db, args.uid, args.work_date)]
    /\ pc' = "done"
    /\ UNCHANGED <<args, loc, dbvars, wall>>

NextMult == multiplier_lookup

SpecMult == InitMult /\ [][NextMult]_vars

\* the rows of the asking user for the asked date
AskedBhRows == {b \in bank_holidays : b.user_id = args.uid /\ b.bh_date = args.work_date}

\* day numbers 0, 7, ... are Sundays
IsSunday(ymd) == ymd % 7 = 0

\* C11: multiplier_for_date returns the public-holiday premium whenever a
\* bank holiday row of that user for that date is marked paid, on every
\* weekday including Sunday; otherwise 1.5 on a Sunday and 1.0 on every other
\* day, an unpaid row or a row of another user changing nothing.
C11_MultiplierPriority ==
    pc = "done" =>
        IF \E b \in AskedBhRows : b.paid = 1
        THEN ret.mult = 10787
        ELSE IF IsSunday(args.work_date) THEN ret.mult = 15000 ELSE ret.mult = 10000

\* a paid bank holiday on a Sunday: the premium, not 1.5
C11_WitnessSunday ==
    /\ pc = "done"
    /\ IsSunday(args.work_date)
    /\ \E b \in AskedBhRows : b.paid = 1
    /\ ret.mult = PUBLIC_HOLIDAY_MULT

------------------------------------------------------------------------------
(* The clock state machine: its tables.  An entries row is [user_id,
   week_id, work_date, time_in, time_out, break_minutes, multiplier,
   extra_authorized, extra_checked] (its id is left out: the handlers insert
   a row only after finding none of that user, week and date, so the three
   identify it; note, bh_paid and created_at are left out, nothing modelled
   reads them).  A clock_state row is [user_id, week_id, work_date, in_time,
   out_time, break_running, break_start, break_minutes], user_id being the
   primary key; break_start is None or the <<day, minute>> of the local time
   at which the break started (the wall clock is read in whole minutes). *)

\* POST /api/weeks
CreateWeek(d, uid, week_number, start_date) ==
    [d EXCEPT
        !.weeks = @ \cup {[id |-> d.next_week_id, user_id |-> uid,
                           week_number |-> week_number, start_date |-> start_date]},
        !.next_week_id = @ + 1]

WeekNone == [found |-> FALSE, id |-> 0, start_date |-> 0]

WeekRow(w) == [found |-> TRUE, id |-> w.id, start_date |-> w.start_date]

\* the weeks get_week_for_today_strict may return: the first week in
\* start_date order that contains today, else the latest week that started
\* before today, else the earliest week; weeks of equal start_date come in
\* an order SQL leaves open
get_week_for_today_strict_CoveringOnly(d, uid, tdy) ==
    LET W == {w \in d.weeks : w.user_id = uid}
        containing == {w \in W : w.start_date <= tdy /\ tdy <= w.start_date + 6}
        Earliest(S) == {w \in S : \A o \in S : w.start_date <= o.start_date}
    IN  IF containing = {} THEN {WeekNone}
        ELSE {WeekRow(w) : w \in Earliest(containing)}

get_week_for_today_strict(d, uid, tdy) ==
    LET W == {w \in d.weeks : w.user_id = uid}
        containing == {w \in W : w.start_date <= tdy /\ tdy <= w.start_date + 6}
        past == {w \in W : w.start_date <= tdy}
        Earliest(S) == {w \in S : \A o \in S : w.start_date <= o.start_date}
        Latest(S) == {w \in S : \A o \in S : w.start_date >= o.start_date}
    IN  IF W = {} THEN {WeekNone}
        ELSE IF containing # {} THEN {WeekRow(w) : w \in Earliest(containing)}
        ELSE IF past # {} THEN {WeekRow(w) : w \in Latest(past)}
        ELSE {WeekRow(w) : w \in Earliest(W)}

\* SELECT * FROM entries WHERE user_id=? AND week_id=? AND work_date=?
EntryRows(d, uid, week_id, work_date) ==
    {e \in d.entries : e.user_id = uid /\ e.week_id = week_id /\ e.work_date = work_date}

\* the row get_or_create_today_entry inserts
BlankEntry(d, uid, week_id, work_date) ==
    [user_id |-> uid, week_id |-> week_id, work_date |-> work_date,
     time_in |-> None, time_out |-> None, break_minutes |-> 0,
     multiplier |-> multiplier_for_date(d, uid, work_date),
     extra_authorized |-> 0, extra_checked |-> 0]

\* mutant of get_or_create_today_entry: a new entry gets the column default 1.0
get_or_create_today_entry_DefaultMult(d, uid, week_id, work_date) ==
    IF EntryRows(d, uid, week_id, work_date) # {} THEN d
    ELSE [d EXCEPT !.entries =
             @ \cup {[BlankEntry(d, uid, week_id, work_date) EXCEPT !.multiplier = MULT_NORMAL]}]

\* the tables after get_or_create_today_entry (it commits its insert)
get_or_create_today_entry(d, uid, week_id, work_date) ==
    IF EntryRows(d, uid, week_id, work_date) # {} THEN d
    ELSE [d EXCEPT !.entries = @ \cup {BlankEntry(d, uid, week_id, work_date)}]

\* the row it returns
TheEntry(d, uid, week_id, work_date) ==
    CHOOSE e \in EntryRows(d, uid, week_id, work_date) : TRUE

\* UPDATE entries SET ... WHERE id=? AND user_id=?
UpdateEntry(d, e, e2) == [d EXCEPT !.entries = (@ \ {e}) \cup {e2}]

\* SELECT * FROM clock_state WHERE user_id=?
StateRows(d, uid) == {st \in d.clock_state : st.user_id = uid}

\* SELECT * FROM clock_state WHERE user_id=? AND work_date=?
StateRowsOn(d, uid, work_date) == {st \in StateRows(d, uid) : st.work_date = work_date}

\* mutant of PutState: the write is not restricted to the user's row
PutState_AnyUser(d, uid, st2) == [d EXCEPT !.clock_state = {st2}]

\* the row of the user replaced by row st2
PutState(d, uid, st2) == [d EXCEPT !.clock_state = (@ \ StateRows(d, uid)) \cup {st2}]

\* hhmm_now()
hhmm_now(nw) == min_to_hhmm(nw)

\* int((datetime.now() - bs).total_seconds() // 60)
Elapsed(bs, tdy, nw) == (tdy - bs[1]) * DAY_MIN + (nw - bs[2])

\* mutant of decide_clock_time: an unauthorized early IN is stored as punched
decide_clock_time_NoCap(kind, real_now, official, authorized) ==
    IF ~Truthy(official) THEN [store |-> real_now, needs_confirm |-> FALSE]
    ELSE LET diff == hhmm_to_min(real_now) - hhmm_to_min(official)
         IN  IF Abs(diff) <= TOLERANCE_MIN THEN [store |-> official, needs_confirm |-> FALSE]
             ELSE IF authorized THEN [store |-> real_now, needs_confirm |-> FALSE]
             ELSE IF kind = "IN"
                  THEN IF diff < -TOLERANCE_MIN
                       THEN [store |-> real_now, needs_confirm |-> TRUE]
                       ELSE [store |-> real_now, needs_confirm |-> FALSE]
             ELSE IF kind = "OUT"
                  THEN IF diff > TOLERANCE_MIN
                       THEN [store |-> official, needs_confirm |-> TRUE]
                       ELSE [store |-> real_now, needs_confirm |-> FALSE]
             ELSE [store |-> real_now, needs_confirm |-> FALSE]

\* mutant of decide_clock_time: a late IN asks for confirmation as well
decide_clock_time_AskLateIn(kind, real_now, official, authorized) ==
    IF ~Truthy(official) THEN [store |-> real_now, needs_confirm |-> FALSE]
    ELSE LET diff == hhmm_to_min(real_now) - hhmm_to_min(official)
         IN  IF Abs(diff) <= TOLERANCE_MIN THEN [store |-> official, needs_confirm |-> FALSE]
             ELSE IF authorized THEN [store |-> real_now, needs_confirm |-> FALSE]
             ELSE IF kind = "IN"
                  THEN IF diff < -TOLERANCE_MIN
                       THEN [store |-> official, needs_confirm |-> TRUE]
                       ELSE [store |-> real_now, needs_confirm |-> TRUE]
             ELSE IF kind = "OUT"
                  THEN IF diff > TOLERANCE_MIN
                       THEN [store |-> official, needs_confirm |-> TRUE]
                       ELSE [store |-> real_now, needs_confirm |-> FALSE]
             ELSE [store |-> real_now, needs_confirm |-> FALSE]

\* mutant of decide_clock_time: OUT is not treated like IN, a late OUT is
\* stored as punched and never asked about
decide_clock_time_OutAsPunched(kind, real_now, official, authorized) ==
    IF ~Truthy(official) THEN [store |-> real_now, needs_confirm |-> FALSE]
    ELSE LET diff == hhmm_to_min(real_now) - hhmm_to_min(official)
         IN  IF Abs(diff) <= TOLERANCE_MIN THEN [store |-> official, needs_confirm |-> FALSE]
             ELSE IF authorized THEN [store |-> real_now, needs_confirm |-> FALSE]
             ELSE IF kind = "IN"
                  THEN IF diff < -TOLERANCE_MIN
                       THEN [store |-> official, needs_confirm |-> TRUE]
                       ELSE [store |-> real_now, needs_confirm |-> FALSE]
             ELSE [store |-> real_now, needs_confirm |-> FALSE]

\* (store_time, needs_confirm)
decide_clock_time(kind, real_now, official, authorized) ==
    IF ~Truthy(official) THEN [store |-> real_now, needs_confirm |-> FALSE]
    ELSE LET diff == hhmm_to_min(real_now) - hhmm_to_min(official)
         IN  IF Abs(diff) <= TOLERANCE_MIN THEN [store |-> official, needs_confirm |-> FALSE]
             ELSE IF authorized THEN [store |-> real_now, needs_confirm |-> FALSE]
             ELSE IF kind = "IN"
                  THEN IF diff < -TOLERANCE_MIN
                       THEN [store |-> official, needs_confirm |-> TRUE]
                       ELSE [store |-> real_now, needs_confirm |-> FALSE]
             ELSE IF kind = "OUT"
                  THEN IF diff > TOLERANCE_MIN
                       THEN [store |-> official, needs_confirm |-> TRUE]
                       ELSE [store |-> real_now, needs_confirm |-> FALSE]
             ELSE [store |-> real_now, needs_confirm |-> FALSE]

------------------------------------------------------------------------------
(* The responses of the handlers.  code is the HTTP status; the other fields
   are the keys of the JSON bodies, those a body does not carry at their
   neutral value. *)

Resp ==
    [code |-> 200, needs_extra_confirm |-> FALSE, ignored |-> FALSE,
     reason |-> "", kind |-> "", official |-> None, real |-> None,
     has_week |-> TRUE, in_time |-> None, out_time |-> None,
     break_minutes |-> 0, break_running |-> FALSE]

\* HTTPException(400, "Create a week first")
RespNoWeek == [Resp EXCEPT !.code = 400, !.has_week = FALSE]

\* HTTPException(404, ...)
RespNotFound == [Resp EXCEPT !.code = 404]

\* an sqlite3.IntegrityError nobody catches
RespServerError == [Resp EXCEPT !.code = 500]

RespNeedsConfirm(reason, kind, official, real) ==
    [Resp EXCEPT !.needs_extra_confirm = TRUE, !.reason = reason, !.kind = kind,
                 !.official = official, !.real = real]

RespIgnored == [Resp EXCEPT !.ignored = TRUE, !.reason = "DAY_OFF"]

\* a punch was committed: neither refused, nor pending, nor ignored
Committed(r) == r.code = 200 /\ ~r.needs_extra_confirm /\ ~r.ignored

------------------------------------------------------------------------------
(* The clock handlers, each from the tables d, the week w that
   get_current_week returned, the roster row ro that roster_for_date
   returned and the wall clock (tdy, nw) to the tables it leaves and its
   response. *)

\* the row the INSERT ... ON CONFLICT of clock_in and clock_today leaves
FreshState(uid, w, tdy, in_time, out_time, break_minutes) ==
    [user_id |-> uid, week_id |-> w.id, work_date |-> tdy,
     in_time |-> in_time, out_time |-> out_time,
     break_running |-> 0, break_start |-> None, break_minutes |-> break_minutes]

\* an upsert whose ON CONFLICT clause leaves out_time and the break columns
\* of the row as they were
InState_KeepRest(d, uid, w, tdy, store_in, break_minutes) ==
    LET S == StateRows(d, uid)
        st == CHOOSE x \in S : TRUE
    IN  IF S = {}
        THEN FreshState(uid, w, tdy, store_in, None, break_minutes)
        ELSE [st EXCEPT !.week_id = w.id, !.work_date = tdy, !.in_time = store_in,
                        !.break_minutes = break_minutes]

\* clock_in, lines 2468-2483: ON CONFLICT rewrites every column of the row
InState(d, uid, w, tdy, store_in, break_minutes) ==
    FreshState(uid, w, tdy, store_in, None, break_minutes)

\* a roster that is blind to its days off
IsDayOff_Never(ro) == FALSE

\* clock_in line 2433, clock_out line 2503: the date has a roster day and it
\* is a day off
IsDayOff(ro) == ro.found /\ ro.day_off = 1

\* clock_in, lines 2430-2484, for a user with a week: the tables as the
\* handler goes along: after get_or_create_today_entry (committed), after
\* the UPDATE of the entry, after the upsert of the clock state
ClockInWrites(d, uid, w, ro, tdy, nw) ==
    LET real_now == hhmm_now(nw)
        d1 == get_or_create_today_entry(d, uid, w.id, tdy)
        e == TheEntry(d1, uid, w.id, tdy)
        official_in == IF ro.found THEN ro.shift_in ELSE None
        authorized == e.extra_authorized = 1
        dec == decide_clock_time("IN", real_now, official_in, authorized)
        mult == multiplier_for_date(d1, uid, tdy)
        e2 == [e EXCEPT !.time_in = dec.store, !.time_out = None, !.multiplier = mult]
        dE == UpdateEntry(d1, e, e2)
    IN  <<d1, dE, PutState(dE, uid, InState(d1, uid, w, tdy, dec.store, e.break_minutes))>>

\* POST /api/clock/in
ClockIn(d, uid, w, ro, tdy, nw) ==
    IF ~w.found THEN [db |-> d, resp |-> RespNoWeek]
    ELSE
    LET real_now == hhmm_now(nw)
        d1 == get_or_create_today_entry(d, uid, w.id, tdy)
        e == TheEntry(d1, uid, w.id, tdy)
        official_in == IF ro.found THEN ro.shift_in ELSE None
        authorized == e.extra_authorized = 1
        dec == decide_clock_time("IN", real_now, official_in, authorized)
    IN  IF IsDayOff(ro) /\ e.extra_checked = 0
        THEN [db |-> d1, resp |-> RespNeedsConfirm("DAY_OFF", "IN", None, real_now)]
        ELSE IF IsDayOff(ro) /\ e.extra_authorized # 1
        THEN [db |-> d1, resp |-> RespIgnored]
        ELSE IF dec.needs_confirm /\ e.extra_checked = 0
        THEN [db |-> d1, resp |-> RespNeedsConfirm("EARLY_IN", "IN", official_in, real_now)]
        ELSE [db |-> ClockInWrites(d, uid, w, ro, tdy, nw)[3], resp |-> Resp]

\* the running break is closed on the clock state alone and its minutes are
\* never written to the entry
StopRunningBreak_StateOnly(d, uid, e, tdy, nw) ==
    LET S == StateRows(d, uid)
        st == CHOOSE x \in S : TRUE
    IN  IF S # {} /\ st.break_running = 1 /\ Truthy(st.break_start)
        THEN PutState(d, uid, [st EXCEPT !.break_running = 0, !.break_start = None,
                                         !.break_minutes = @ + Max(0, Elapsed(st.break_start, tdy, nw))])
        ELSE d

\* clock_out, lines 2533-2542: the UPDATE of clock_state that stops a
\* running break
StopBreakOnState(d, uid, tdy, nw) ==
    LET S == StateRows(d, uid)
        st == CHOOSE x \in S : TRUE
    IN  IF S # {} /\ st.break_running = 1 /\ Truthy(st.break_start)
        THEN LET new_break == st.break_minutes + Max(0, Elapsed(st.break_start, tdy, nw))
             IN  PutState(d, uid, [st EXCEPT !.break_running = 0, !.break_start = None,
                                             !.break_minutes = new_break])
        ELSE d

\* clock_out, lines 2533-2547: a running break is stopped and folded in
StopRunningBreak(d, uid, e, tdy, nw) ==
    LET S == StateRows(d, uid)
        st == CHOOSE x \in S : TRUE
    IN  IF S # {} /\ st.break_running = 1 /\ Truthy(st.break_start)
        THEN LET new_break == st.break_minutes + Max(0, Elapsed(st.break_start, tdy, nw))
                 dS == StopBreakOnState(d, uid, tdy, nw)
             IN  UpdateEntry(dS, e, [e EXCEPT !.break_minutes = new_break])
        ELSE d

\* clock_out, lines 2555-2569: ON CONFLICT leaves in_time as it was
OutState(d, uid, w, tdy, store_out, break_minutes) ==
    LET S == StateRows(d, uid)
        st == CHOOSE x \in S : TRUE
    IN  IF S = {}
        THEN FreshState(uid, w, tdy, None, store_out, break_minutes)
        ELSE [st EXCEPT !.week_id = w.id, !.work_date = tdy, !.out_time = store_out,
                        !.break_running = 0, !.break_start = None,
                        !.break_minutes = break_minutes]

\* clock_out, lines 2500-2571, for a user with a week: the tables as the
\* handler goes along: after get_or_create_today_entry (committed), after
\* the break was stopped on the clock state, after it was folded into the
\* entry, after the UPDATE of the entry's time_out, after the upsert of the
\* clock state
ClockOutWrites(d, uid, w, ro, tdy, nw) ==
    LET real_now == hhmm_now(nw)
        d1 == get_or_create_today_entry(d, uid, w.id, tdy)
        e == TheEntry(d1, uid, w.id, tdy)
        official_out == IF ro.found THEN ro.shift_out ELSE None
        authorized == e.extra_authorized = 1
        dec == decide_clock_time("OUT", real_now, official_out, authorized)
        dS == StopBreakOnState(d1, uid, tdy, nw)
        d2 == StopRunningBreak(d1, uid, e, tdy, nw)
        e1 == TheEntry(d2, uid, w.id, tdy)
        mult == multiplier_for_date(d2, uid, tdy)
        e2 == [e1 EXCEPT !.time_out = dec.store, !.multiplier = mult]
        d3 == UpdateEntry(d2, e1, e2)
    IN  <<d1, dS, d2, d3,
          PutState(d3, uid, OutState(d3, uid, w, tdy, dec.store, e1.break_minutes))>>

\* mutant of ClockOut: a late OUT is asked about although it was answered
ClockOut_AsksAgain(d, uid, w, ro, tdy, nw) ==
    IF ~w.found THEN [db |-> d, resp |-> RespNoWeek]
    ELSE
    LET real_now == hhmm_now(nw)
        d1 == get_or_create_today_entry(d, uid, w.id, tdy)
        e == TheEntry(d1, uid, w.id, tdy)
        official_out == IF ro.found THEN ro.shift_out ELSE None
        authorized == e.extra_authorized = 1
        dec == decide_clock_time("OUT", real_now, official_out, authorized)
    IN  IF IsDayOff(ro) /\ e.extra_checked = 0
        THEN [db |-> d1, resp |-> RespNeedsConfirm("DAY_OFF", "OUT", None, real_now)]
        ELSE IF IsDayOff(ro) /\ e.extra_authorized # 1
        THEN [db |-> d1, resp |-> RespIgnored]
        ELSE IF dec.needs_confirm
        THEN [db |-> d1, resp |-> RespNeedsConfirm("LATE_OUT", "OUT", official_out, real_now)]
        ELSE [db |-> ClockOutWrites(d, uid, w, ro, tdy, nw)[5], resp |-> Resp]

\* POST /api/clock/out
ClockOut(d, uid, w, ro, tdy, nw) ==
    IF ~w.found THEN [db |-> d, resp |-> RespNoWeek]
    ELSE
    LET real_now == hhmm_now(nw)
        d1 == get_or_create_today_entry(d, uid, w.id, tdy)
        e == TheEntry(d1, uid, w.id, tdy)
        official_out == IF ro.found THEN ro.shift_out ELSE None
        authorized == e.extra_authorized = 1
        dec == decide_clock_time("OUT", real_now, official_out, authorized)
    IN  IF IsDayOff(ro) /\ e.extra_checked = 0
        THEN [db |-> d1, resp |-> RespNeedsConfirm("DAY_OFF", "OUT", None, real_now)]
        ELSE IF IsDayOff(ro) /\ e.extra_authorized # 1
        THEN [db |-> d1, resp |-> RespIgnored]
        ELSE IF dec.needs_confirm /\ e.extra_checked = 0
        THEN [db |-> d1, resp |-> RespNeedsConfirm("LATE_OUT", "OUT", official_out, real_now)]
        ELSE [db |-> ClockOutWrites(d, uid, w, ro, tdy, nw)[5], resp |-> Resp]

\* a break that is flagged running without the moment it started
StartBreak_NoStamp(st, tdy, nw) == [st EXCEPT !.break_running = 1]

\* clock_break, lines 2593-2621: the break starts, break_start is the moment
StartBreak(st, tdy, nw) == [st EXCEPT !.break_running = 1, !.break_start = <<tdy, nw>>]

\* clock_break, lines 2586-2645, for a user with a week: the tables as the
\* handler goes along: after get_or_create_today_entry (committed), then
\* after each statement of the branch taken
ClockBreakWrites(d, uid, w, tdy, nw) ==
    LET d1 == get_or_create_today_entry(d, uid, w.id, tdy)
        e == TheEntry(d1, uid, w.id, tdy)
        S == StateRowsOn(d1, uid, tdy)
        st == CHOOSE x \in S : TRUE
        new_break == st.break_minutes + Max(0, Elapsed(st.break_start, tdy, nw))
        dS == PutState(d1, uid, [st EXCEPT !.break_running = 0, !.break_start = None,
                                           !.break_minutes = new_break])
    IN  IF S = {}
        THEN IF StateRows(d1, uid) # {}
             \* the plain INSERT meets the row of an earlier day: the primary
             \* key user_id refuses it, after the entry was committed
             THEN <<d1>>
             ELSE <<d1, PutState(d1, uid,
                           StartBreak(FreshState(uid, w, tdy, e.time_in, e.time_out,
                                                 e.break_minutes), tdy, nw))>>
        ELSE IF st.break_running # 1
        THEN <<d1, PutState(d1, uid, StartBreak(st, tdy, nw))>>
        ELSE IF ~Truthy(st.break_start)
        THEN <<d1, PutState(d1, uid, [st EXCEPT !.break_running = 0, !.break_start = None])>>
        ELSE <<d1, dS, UpdateEntry(dS, e, [e EXCEPT !.break_minutes = new_break])>>

\* POST /api/clock/break
ClockBreak(d, uid, w, tdy, nw) ==
    IF ~w.found THEN [db |-> d, resp |-> RespNoWeek]
    ELSE
    LET d1 == get_or_create_today_entry(d, uid, w.id, tdy)
        S == StateRowsOn(d1, uid, tdy)
        st == CHOOSE x \in S : TRUE
        new_break == st.break_minutes + Max(0, Elapsed(st.break_start, tdy, nw))
        ws == ClockBreakWrites(d, uid, w, tdy, nw)
    IN  IF S = {}
        THEN IF StateRows(d1, uid) # {}
             THEN [db |-> d1, resp |-> RespServerError]
             ELSE [db |-> ws[Len(ws)], resp |-> [Resp EXCEPT !.break_running = TRUE]]
        ELSE IF st.break_running # 1
        THEN [db |-> ws[Len(ws)], resp |-> [Resp EXCEPT !.break_running = TRUE]]
        ELSE IF ~Truthy(st.break_start)
        THEN [db |-> ws[Len(ws)], resp |-> Resp]
        ELSE [db |-> ws[Len(ws)], resp |-> [Resp EXCEPT !.break_minutes = new_break]]

\* GET /api/clock/today
ClockToday(d, uid, w, tdy) ==
    IF ~w.found THEN [db |-> d, resp |-> [Resp EXCEPT !.has_week = FALSE]]
    ELSE
    LET d1 == get_or_create_today_entry(d, uid, w.id, tdy)
        e == TheEntry(d1, uid, w.id, tdy)
        S == StateRows(d1, uid)
        st == CHOOSE x \in S : TRUE
        st2 == IF S = {} \/ st.work_date # tdy
               THEN FreshState(uid, w, tdy, e.time_in, e.time_out, e.break_minutes)
               ELSE [st EXCEPT !.week_id = w.id, !.in_time = e.time_in,
                               !.out_time = e.time_out, !.break_minutes = e.break_minutes]
    IN  [db |-> PutState(d1, uid, st2),
         resp |-> [Resp EXCEPT !.in_time = st2.in_time, !.out_time = st2.out_time,
                               !.break_minutes = st2.break_minutes,
                               !.break_running = (st2.break_running = 1)]]

\* a confirmation that records every answer as an authorization
ClockExtraConfirm_AlwaysAuthorized(d, uid, w, p) ==
    IF ~w.found THEN [db |-> d, resp |-> RespNoWeek]
    ELSE
    LET d1 == get_or_create_today_entry(d, uid, w.id, p.work_date)
        e == TheEntry(d1, uid, w.id, p.work_date)
    IN  [db |-> UpdateEntry(d1, e, [e EXCEPT !.extra_checked = 1, !.extra_authorized = 1]),
         resp |-> Resp]

\* POST /api/clock/extra-confirm with the body p = [work_date, authorized]
ClockExtraConfirm(d, uid, w, p) ==
    IF ~w.found THEN [db |-> d, resp |-> RespNoWeek]
    ELSE
    LET d1 == get_or_create_today_entry(d, uid, w.id, p.work_date)
        e == TheEntry(d1, uid, w.id, p.work_date)
    IN  [db |-> UpdateEntry(d1, e, [e EXCEPT !.extra_checked = 1,
                                             !.extra_authorized = IF p.authorized THEN 1 ELSE 0]),
         resp |-> Resp]

------------------------------------------------------------------------------
(* The entry endpoints, patch_bh and get_week *)

\* a sync that also closes the break in progress
SyncState_StopsBreak(st, week_id, p) ==
    [st EXCEPT !.week_id = week_id, !.in_time = p.time_in, !.out_time = p.time_out,
               !.break_minutes = p.break_minutes, !.break_running = 0,
               !.break_start = None]

\* upsert_entry, lines 1978-1997: UPDATE clock_state SET week_id, in_time,
\* out_time, break_minutes
SyncState(st, week_id, p) ==
    [st EXCEPT !.week_id = week_id, !.in_time = p.time_in, !.out_time = p.time_out,
               !.break_minutes = p.break_minutes]

\* PUT /api/weeks/{week_id}/entry with the body p = [work_date, time_in,
\* time_out, break_minutes]
UpsertEntry(d, uid, week_id, p, tdy) ==
    IF ~\E w \in d.weeks : w.id = week_id /\ w.user_id = uid
    THEN [db |-> d, resp |-> RespNotFound]
    ELSE
    LET mult == multiplier_for_date(d, uid, p.work_date)
        existing == EntryRows(d, uid, week_id, p.work_date)
        e == CHOOSE x \in existing : TRUE
        d1 == IF existing # {}
              THEN UpdateEntry(d, e, [e EXCEPT !.time_in = p.time_in,
                                               !.time_out = p.time_out,
                                               !.break_minutes = p.break_minutes,
                                               !.multiplier = mult])
              ELSE [d EXCEPT !.entries = @ \cup
                       {[BlankEntry(d, uid, week_id, p.work_date)
                            EXCEPT !.time_in = p.time_in, !.time_out = p.time_out,
                                   !.break_minutes = p.break_minutes]}]
        S == StateRowsOn(d1, uid, p.work_date)
        st == CHOOSE x \in S : TRUE
    IN  \* "Sync clock_state if user edited TODAY"
        IF p.work_date = tdy /\ S # {}
        THEN [db |-> PutState(d1, uid, SyncState(st, week_id, p)), resp |-> Resp]
        ELSE [db |-> d1, resp |-> Resp]

\* DELETE /api/entries/{entry_id}, e being the row of that id
DeleteEntry(d, uid, e) ==
    IF e \in d.entries /\ e.user_id = uid
    THEN [db |-> [d EXCEPT !.entries = @ \ {e}], resp |-> Resp]
    ELSE [db |-> d, resp |-> RespNotFound]

\* PATCH /api/bank-holidays/{bh_id} with the body p = [paid, applicable],
\* each "None", "True" or "False"
PatchBh(d, uid, bh_id, p) ==
    LET B == {b \in d.bank_holidays : b.id = bh_id /\ b.user_id = uid}
        b == CHOOSE x \in B : TRUE
        b1 == IF p.applicable = "False" THEN [b EXCEPT !.paid = 0] ELSE b
        b2 == IF p.paid = "True" THEN [b1 EXCEPT !.paid = 1]
              ELSE IF p.paid = "False" THEN [b1 EXCEPT !.paid = 0]
              ELSE b1
    IN  IF B = {} THEN [db |-> d, resp |-> RespNotFound]
        ELSE [db |-> [d EXCEPT !.bank_holidays = (@ \ {b}) \cup {b2}], resp |-> Resp]

RECURSIVE SumOver(_, _)
\* the sum of row[field] over the rows S
SumOver(S, field) ==
    IF S = {} THEN 0
    ELSE LET r == CHOOSE x \in S : TRUE
         IN  r[field] + SumOver(S \ {r}, field)

\* mutant of WeekLine: the multiplier is recomputed when the week is listed
WeekLine_LiveMultiplier(d, uid, r, ro) ==
    LET m == minutes_paid_between(ro, r.time_in, r.time_out, r.break_minutes,
                                  r.extra_authorized = 1).paid
        mult == multiplier_for_date(d, uid, r.work_date)
    IN  [work_date |-> r.work_date, minutes |-> m, multiplier |-> mult,
         pay_units |-> m * mult]

\* the loop body of get_week for the stored row r and its roster row ro: the
\* paid minutes, the stored multiplier and the row's term of total_pay, which
\* is (pay_units / 600000) * hourly_rate
WeekLine(d, uid, r, ro) ==
    LET m == minutes_paid_between(ro, r.time_in, r.time_out, r.break_minutes,
                                  r.extra_authorized = 1).paid
        mult == r.multiplier
    IN  [work_date |-> r.work_date, minutes |-> m, multiplier |-> mult,
         pay_units |-> m * mult]

\* GET /api/weeks/{week_id}, pick giving the roster row resolved for each entry
GetWeek(d, uid, week_id, pick) ==
    IF ~\E w \in d.weeks : w.id = week_id /\ w.user_id = uid
    THEN [code |-> 404, entries |-> {}, total_min |-> 0, total_pay_units |-> 0]
    ELSE LET rows == {r \in d.entries : r.week_id = week_id /\ r.user_id = uid}
             lines == {WeekLine(d, uid, r, pick[r]) : r \in rows}
         IN  [code |-> 200, entries |-> lines,
              total_min |-> SumOver(lines, "minutes"),
              total_pay_units |-> SumOver(lines, "pay_units")]

------------------------------------------------------------------------------
(* Spec: the clock state machine.  Every handler is one action, run from
   its first statement to its response; pc is the handler that ran last,
   args what it was given and read at its start, ret its response (both
   forgotten when time passes). *)

\* the user who punches
ClockUsers == {1}

\* the times of day at which requests arrive: before shift A, at its tolerance
\* limit, and after its end
ClockTimes == {hhmm_to_min(t) : t \in {<<9, 20>>, <<9, 50>>, <<19, 30>>}}

FirstTime == CHOOSE t \in ClockTimes : \A o \in ClockTimes : t <= o

\* the day before the behaviour, a Sunday
Yesterday == 0

\* the day of the behaviour, a Monday and a bank holiday of the catalog
Today == 1

BhDay == Today

\* the bodies of the manual edits of today's entry: an in-time alone, or both
\* times and a break
UpsertBodies(tdy) ==
    {[work_date |-> tdy, time_in |-> t[1], time_out |-> t[2], break_minutes |-> t[3]] :
        t \in {<<(<<10, 0>>), None, 0>>, <<(<<10, 0>>), (<<18, 0>>), BreakStep>>}}

\* the manual edit with both times and a break
EditBodies(tdy) == {p \in UpsertBodies(tdy) : Truthy(p.time_out)}

\* the confirmations, of today's punches
ConfirmBodies(tdy) == [work_date : {tdy}, authorized : BOOLEAN]

BhPatches ==
    {[paid |-> "True", applicable |-> "None"], [paid |-> "False", applicable |-> "None"],
     [paid |-> "None", applicable |-> "False"]}

\* the tables d with the bank holiday row that ensure_bh_for_year seeds, unpaid
Seeded(d) == [d EXCEPT !.bank_holidays = {BhRow(1, 1, BhDay, 0)}]

\* a week and its roster of seven days of one code
RosterSetup(code) ==
    Seeded(RosterCreate(Db0, 1, 1, Yesterday, [i \in 1..ROSTER_DAYS |-> code]))

\* the weeks and rosters a behaviour starts with: no week; a week without
\* roster; a week and its roster of shift A days; a week and its roster of
\* days off
ClockSetups ==
    {Seeded(Db0), Seeded(CreateWeek(Db0, 1, 1, Yesterday)), RosterSetup("A"), RosterSetup("OFF")}

\* what yesterday left of the tables d: a clock-in at t_in, then a break
\* started at t_break and never stopped
LeftRunning(d, uid, t_in, t_break) ==
    {ClockBreak(ClockIn(d, uid, w, ro, Yesterday, t_in).db, uid, w, Yesterday, t_break).db :
        w \in get_week_for_today_strict(d, uid, Yesterday),
        ro \in roster_for_date(d, uid, Yesterday)}

\* what this morning left of the tables d: the page was opened (today's
\* entry created), then the bank holiday of today was marked paid
MarkedPaidSince(d, uid) ==
    {PatchBh(ClockToday(d, uid, w, Today).db, uid, b.id,
             [paid |-> "True", applicable |-> "None"]).db :
        w \in get_week_for_today_strict(d, uid, Today),
        b \in {x \in d.bank_holidays : x.user_id = uid /\ x.bh_date = Today}}

\* the tables a behaviour starts from: nothing happened before; or, on the
\* roster of shift A days, the user clocked in yesterday at 09:50 and left at
\* 19:30 on a break that is still running; or, on that roster, today's entry
\* was created before today was marked a paid bank holiday
ClockDbs ==
    ClockSetups
    \cup LeftRunning(RosterSetup("A"), 1, hhmm_to_min(<<9, 50>>), hhmm_to_min(<<19, 30>>))
    \cup MarkedPaidSince(RosterSetup("A"), 1)

Init ==
    /\ pc = "start"
    /\ args = None
    /\ loc = NoLoc
    /\ ret = Resp
    /\ \E d \in ClockDbs : InitDb(d)
    /\ today = Today
    /\ now = FirstTime

\* what a clock handler is given and what it finds before it decides: the
\* week, the roster row, and the clock_state rows of the user
ClockReads(uid, w, ro) == [uid |-> uid, w |-> w, ro |-> ro, st |-> StateRows(Db, uid)]

clock_in(uid) ==
    \E w \in get_week_for_today_strict(Db, uid, today), ro \in roster_for_date(Db, uid, today) :
        LET r == ClockIn(Db, uid, w, ro, today, now)
        IN  /\ SetDb(r.db)
            /\ ret' = r.resp
            /\ args' = ClockReads(uid, w, ro)
            /\ pc' = "clock_in"
            /\ UNCHANGED <<loc, wall>>

clock_out(uid) ==
    \E w \in get_week_for_today_strict(Db, uid, today), ro \in roster_for_date(Db, uid, today) :
        LET r == ClockOut(Db, uid, w, ro, today, now)
        IN  /\ SetDb(r.db)
            /\ ret' = r.resp
            /\ args' = ClockReads(uid, w, ro)
            /\ pc' = "clock_out"
            /\ UNCHANGED <<loc, wall>>

clock_break(uid) ==
    \E w \in get_week_for_today_strict(Db, uid, today) :
        LET r == ClockBreak(Db, uid, w, today, now)
        IN  /\ SetDb(r.db)
            /\ ret' = r.resp
            /\ args' = ClockReads(uid, w, RowNone)
            /\ pc' = "clock_break"
            /\ UNCHANGED <<loc, wall>>

clock_today(uid) ==
    \E w \in get_week_for_today_strict(Db, uid, today) :
        LET r == ClockToday(Db, uid, w, today)
        IN  /\ SetDb(r.db)
            /\ ret' = r.resp
            /\ args' = ClockReads(uid, w, RowNone)
            /\ pc' = "clock_today"
            /\ UNCHANGED <<loc, wall>>

clock_extra_confirm(uid, p) ==
    \E w \in get_week_for_today_strict(Db, uid, today) :
        LET r == ClockExtraConfirm(Db, uid, w, p)
        IN  /\ SetDb(r.db)
            /\ ret' = r.resp
            /\ args' = [uid |-> uid, w |-> w, p |-> p]
            /\ pc' = "clock_extra_confirm"
            /\ UNCHANGED <<loc, wall>>

upsert_entry(uid, week_id, p) ==
    LET r == UpsertEntry(Db, uid, week_id, p, today)
    IN  /\ SetDb(r.db)
        /\ ret' = r.resp
        /\ args' = [uid |-> uid, week_id |-> week_id, p |-> p]
        /\ pc' = "upsert_entry"
        /\ UNCHANGED <<loc, wall>>

\* an unknown entry is answered 404
delete_entry(uid, e) ==
    LET r == DeleteEntry(Db, uid, e)
    IN  /\ e \in entries
        /\ SetDb(r.db)
        /\ ret' = r.resp
        /\ args' = [uid |-> uid, e |-> e]
        /\ pc' = "delete_entry"
        /\ UNCHANGED <<loc, wall>>

patch_bh(uid, bh_id, p) ==
    LET r == PatchBh(Db, uid, bh_id, p)
    IN  /\ SetDb(r.db)
        /\ ret' = r.resp
        /\ args' = [uid |-> uid, bh_id |-> bh_id, p |-> p]
        /\ pc' = "patch_bh"
        /\ UNCHANGED <<loc, wall>>

get_week(uid, week_id) ==
    LET rows == {r \in entries : r.week_id = week_id /\ r.user_id = uid}
        Ro == UNION {roster_for_date(Db, uid, r.work_date) : r \in rows}
    IN  \E pick \in [rows -> Ro] :
            /\ \A r \in rows : pick[r] \in roster_for_date(Db, uid, r.work_date)
            /\ ret' = GetWeek(Db, uid, week_id, pick)
            /\ args' = [uid |-> uid, week_id |-> week_id]
            /\ pc' = "get_week"
            /\ UNCHANGED <<loc, dbvars, wall>>

\* time passes within the day
tick ==
    /\ \E t \in ClockTimes : t > now /\ now' = t
    /\ pc' = "tick"
    /\ args' = None
    /\ ret' = Resp
    /\ UNCHANGED <<loc, dbvars, today>>

Next ==
    \/ \E uid \in ClockUsers : clock_in(uid)
    \/ \E uid \in ClockUsers : clock_out(uid)
    \/ \E uid \in ClockUsers : clock_break(uid)
    \/ \E uid \in ClockUsers : clock_today(uid)
    \/ \E uid \in ClockUsers, p \in ConfirmBodies(today) : clock_extra_confirm(uid, p)
    \/ \E uid \in ClockUsers, w \in weeks, p \in UpsertBodies(today) : upsert_entry(uid, w.id, p)
    \/ \E uid \in ClockUsers, e \in entries : delete_entry(uid, e)
    \/ tick

Spec == Init /\ [][Next]_vars

------------------------------------------------------------------------------
(* SpecHoliday: the clock state machine on the roster of shift A days, while
   the bank holiday of today is marked paid or unpaid and the week is listed *)

InitHoliday ==
    /\ pc = "start"
    /\ args = None
    /\ loc = NoLoc
    /\ ret = Resp
    /\ InitDb(RosterSetup("A"))
    /\ today = Today
    /\ now = FirstTime

NextHoliday ==
    \/ Next
    \/ \E uid \in ClockUsers, b \in bank_holidays, p \in BhPatches : patch_bh(uid, b.id, p)
    \/ \E uid \in ClockUsers, w \in weeks : get_week(uid, w.id)

SpecHoliday == InitHoliday /\ [][NextHoliday]_vars

------------------------------------------------------------------------------
(* SpecBreak: the clock endpoints and the manual edit on the roster of shift
   A days, with a wall clock that can be set to any of its readings, back as
   well as forth (datetime.now() is the local time of the host) *)

\* the readings of the wall clock: 09:50, 13:00, 13:20
BreakTimes == {hhmm_to_min(t) : t \in {<<9, 50>>, <<13, 0>>, <<13, 20>>}}

\* breaks are toggled while the totals are at most this many minutes
MaxBreakTotal == 60

InitBreak ==
    /\ pc = "start"
    /\ args = None
    /\ loc = NoLoc
    /\ ret = Resp
    /\ \E d \in {RosterSetup("A")}
             \cup LeftRunning(RosterSetup("A"), 1, hhmm_to_min(<<9, 50>>),
                              hhmm_to_min(<<19, 30>>)) : InitDb(d)
    /\ today = Today
    /\ now \in BreakTimes

\* the wall clock is read at another of the readings T, later or earlier
set_clock_to(T) ==
    /\ \E t \in T : t # now /\ now' = t
    /\ pc' = "set_clock"
    /\ args' = None
    /\ ret' = Resp
    /\ UNCHANGED <<loc, dbvars, today>>

set_clock == set_clock_to(BreakTimes)

NextBreak ==
    \/ \E uid \in ClockUsers : clock_in(uid)
    \/ \E uid \in ClockUsers : clock_out(uid)
    \/ /\ \A st \in clock_state : st.break_minutes <= MaxBreakTotal
       /\ \E uid \in ClockUsers : clock_break(uid)
    \/ \E uid \in ClockUsers : clock_today(uid)
    \/ \E uid \in ClockUsers, w \in weeks, p \in UpsertBodies(today) : upsert_entry(uid, w.id, p)
    \/ set_clock

SpecBreak == InitBreak /\ [][NextBreak]_vars

------------------------------------------------------------------------------
(* SpecOut: the punches and the confirmation around the official OUT of
   shift A (19:00), on each of the setups *)

\* the readings of the wall clock: 18:00, 19:03, 19:30
OutTimes == {hhmm_to_min(t) : t \in {<<18, 0>>, <<19, 3>>, <<19, 30>>}}

InitOut ==
    /\ pc = "start"
    /\ args = None
    /\ loc = NoLoc
    /\ ret = Resp
    /\ \E d \in ClockSetups : InitDb(d)
    /\ today = Today
    /\ now \in OutTimes

set_clock_out == set_clock_to(OutTimes)

NextOut ==
    \/ \E uid \in ClockUsers : clock_in(uid)
    \/ \E uid \in ClockUsers : clock_out(uid)
    \/ \E uid \in ClockUsers : clock_today(uid)
    \/ \E uid \in ClockUsers, p \in ConfirmBodies(today) : clock_extra_confirm(uid, p)
    \/ \E uid \in ClockUsers, e \in entries : delete_entry(uid, e)
    \/ set_clock_out

SpecOut == InitOut /\ [][NextOut]_vars

------------------------------------------------------------------------------
(* SpecFail: SpecBreak with persistence errors: a clock_in, clock_out or
   clock_break that would commit is interrupted by an exception after some of
   its statements and before its commit *)

\* a connection in autocommit mode: every statement executed is kept
Persisted_Autocommit(com, partial) == partial

\* db(), lines 75-83: the connection is closed without commit when the
\* handler raises, so of the tables com as last committed and partial as
\* written so far, com is what the database holds afterwards
Persisted(com, partial) == com

\* the handler with the write sequence ws raises after k of its statements
FailedAfter(ws, k) == [db |-> Persisted(ws[1], ws[k + 1]), resp |-> RespServerError]

clock_in_fails(uid) ==
    \E w \in get_week_for_today_strict(Db, uid, today), ro \in roster_for_date(Db, uid, today) :
        /\ w.found
        /\ Committed(ClockIn(Db, uid, w, ro, today, now).resp)
        /\ LET ws == ClockInWrites(Db, uid, w, ro, today, now)
           IN  \E k \in 1..(Len(ws) - 1) :
                   /\ SetDb(FailedAfter(ws, k).db)
                   /\ ret' = FailedAfter(ws, k).resp
        /\ args' = ClockReads(uid, w, ro)
        /\ pc' = "clock_in_fails"
        /\ UNCHANGED <<loc, wall>>

clock_out_fails(uid) ==
    \E w \in get_week_for_today_strict(Db, uid, today), ro \in roster_for_date(Db, uid, today) :
        /\ w.found
        /\ Committed(ClockOut(Db, uid, w, ro, today, now).resp)
        /\ LET ws == ClockOutWrites(Db, uid, w, ro, today, now)
           IN  \E k \in 1..(Len(ws) - 1) :
                   /\ SetDb(FailedAfter(ws, k).db)
                   /\ ret' = FailedAfter(ws, k).resp
        /\ args' = ClockReads(uid, w, ro)
        /\ pc' = "clock_out_fails"
        /\ UNCHANGED <<loc, wall>>

clock_break_fails(uid) ==
    \E w \in get_week_for_today_strict(Db, uid, today) :
        /\ w.found
        /\ LET ws == ClockBreakWrites(Db, uid, w, today, now)
           IN  \E k \in 1..(Len(ws) - 1) :
                   /\ SetDb(FailedAfter(ws, k).db)
                   /\ ret' = FailedAfter(ws, k).resp
        /\ args' = ClockReads(uid, w, RowNone)
        /\ pc' = "clock_break_fails"
        /\ UNCHANGED <<loc, wall>>

NextFail ==
    \/ NextBreak
    \/ \E uid \in ClockUsers : clock_in_fails(uid)
    \/ \E uid \in ClockUsers : clock_out_fails(uid)
    \/ \E uid \in ClockUsers : clock_break_fails(uid)

SpecFail == InitBreak /\ [][NextFail]_vars

------------------------------------------------------------------------------
(* SpecWeek: the clock endpoints of a user who has no week, a week that
   covers today, a week that ended before today, or a week that starts
   after today *)

\* a day of the week after the one that starts on day 0
NextWeekDay == 8

\* the first day of the week after that
LaterWeekStart == 14

\* the tables and the date a behaviour starts with
WeekSetups ==
    {[d |-> Seeded(Db0), today |-> Today],
     [d |-> Seeded(CreateWeek(Db0, 1, 1, Yesterday)), today |-> Today],
     [d |-> Seeded(CreateWeek(Db0, 1, 1, Yesterday)), today |-> NextWeekDay],
     [d |-> Seeded(CreateWeek(Db0, 1, 1, LaterWeekStart)), today |-> Today],
     [d |-> Seeded(CreateWeek(CreateWeek(Db0, 1, 1, Yesterday), 1, 2, LaterWeekStart)),
      today |-> NextWeekDay]}

InitWeek ==
    /\ pc = "start"
    /\ args = None
    /\ loc = NoLoc
    /\ ret = Resp
    /\ \E x \in WeekSetups : InitDb(x.d) /\ today = x.today
    /\ now = FirstTime

NextWeek ==
    \/ \E uid \in ClockUsers : clock_in(uid)
    \/ \E uid \in ClockUsers : clock_out(uid)
    \/ \E uid \in ClockUsers : clock_break(uid)
    \/ \E uid \in ClockUsers : clock_today(uid)
    \/ \E uid \in ClockUsers, p \in ConfirmBodies(today) : clock_extra_confirm(uid, p)
    \/ tick

SpecWeek == InitWeek /\ [][NextWeek]_vars

------------------------------------------------------------------------------
(* SpecEdit: the clock endpoints of SpecWeek together with the manual edit of
   today's entry in any week of the user *)

NextEdit ==
    \/ NextWeek
    \/ \E uid \in ClockUsers, w \in weeks, p \in EditBodies(today) : upsert_entry(uid, w.id, p)

SpecEdit == InitWeek /\ [][NextEdit]_vars

------------------------------------------------------------------------------
(* SpecDrift: compute_paid_window on a catalog shift and two punches of one
   day, then on the window it returned, written as HH:MM the way
   minutes_paid_between writes it *)

\* the calls: shift A or shift B, a real-out not before the real-in
DriftArgs ==
    {a \in PWArgs :
        /\ <<a.official_in, a.official_out>> \in
               {<<SHIFT_A_IN, SHIFT_A_OUT>>, <<SHIFT_B_IN, SHIFT_B_OUT>>}
        /\ Truthy(a.real_in) /\ Truthy(a.real_out)
        /\ hhmm_to_min(a.real_in) <= hhmm_to_min(a.real_out)}

InitDrift ==
    /\ pc = "call"
    /\ args \in DriftArgs
    /\ loc = NoLoc
    /\ ret = NoRet
    /\ EmptyDb
    /\ InitWall

\* the first computation
pw_first ==
    /\ pc = "call"
    /\ ret' = [first |-> compute_paid_window(args)]
    /\ pc' = "first"
    /\ UNCHANGED <<args, loc, dbvars, wall>>

\* lines 1060-1061 give the window as HH:MM; the second computation takes it
\* as the real punches
pw_recompute ==
    /\ pc = "first"
    /\ LET back == [args EXCEPT
                       !.real_in = min_to_hhmm(ret.first.paid_in % DAY_MIN),
                       !.real_out = min_to_hhmm(ret.first.paid_out % DAY_MIN)]
       IN  ret' = [first |-> ret.first, back |-> back,
                   second |-> compute_paid_window(back)]
    /\ pc' = "second"
    /\ UNCHANGED <<args, loc, dbvars, wall>>

NextDrift == pw_first \/ pw_recompute

SpecDrift == InitDrift /\ [][NextDrift]_vars

------------------------------------------------------------------------------
(* SpecRound: round_ceil and round_floor applied to a minute value and then
   to their own results *)

\* the minute values compute_paid_window rounds: a time of day, or a time of
\* the following day after the overnight normalisation
RoundMins == 0..(2 * DAY_MIN - 1)

InitRound ==
    /\ pc = "call"
    /\ args \in [mins : RoundMins]
    /\ loc = NoLoc
    /\ ret = NoRet
    /\ EmptyDb
    /\ InitWall

\* paid_in2 = round_ceil(paid_in), paid_out2 = round_floor(paid_out)
round_once ==
    /\ pc = "call"
    /\ ret' = [ceil |-> round_ceil(args.mins), floor |-> round_floor(args.mins)]
    /\ pc' = "once"
    /\ UNCHANGED <<args, loc, dbvars, wall>>

\* the same functions on the values they returned
round_again ==
    /\ pc = "once"
    /\ ret' = [ceil |-> round_ceil(ret.ceil), floor |-> round_floor(ret.floor)]
    /\ args' = [mins |-> args.mins, ceil |-> ret.ceil, floor |-> ret.floor]
    /\ pc' = "again"
    /\ UNCHANGED <<loc, dbvars, wall>>

NextRound == round_once \/ round_again

SpecRound == InitRound /\ [][NextRound]_vars

------------------------------------------------------------------------------
(* SpecUsers: two users, each with a week and a roster of shift A days, whose
   clock, confirmation and entry requests arrive in any order; the deletions
   are those user 1 asks for, of any entry, user 2's included *)

BothUsers == {1, 2}

\* the tables the behaviour starts with
TwoUserDb ==
    LET d1 == RosterCreate(Db0, 1, 1, Yesterday, [i \in 1..ROSTER_DAYS |-> "A"])
        d2 == RosterCreate(d1, 2, 1, Yesterday, [i \in 1..ROSTER_DAYS |-> "A"])
    IN  [d2 EXCEPT !.bank_holidays = {BhRow(1, 1, BhDay, 0), BhRow(2, 2, BhDay, 0)}]

InitUsers ==
    /\ pc = "start"
    /\ args = None
    /\ loc = NoLoc
    /\ ret = Resp
    /\ InitDb(TwoUserDb)
    /\ today = Today
    /\ now = FirstTime

NextUsers ==
    \/ \E uid \in BothUsers : clock_in(uid)
    \/ \E uid \in BothUsers : clock_out(uid)
    \/ \E uid \in BothUsers : clock_break(uid)
    \/ \E uid \in BothUsers, p \in ConfirmBodies(today) : clock_extra_confirm(uid, p)
    \/ \E uid \in BothUsers, w \in weeks, p \in EditBodies(today) : upsert_entry(uid, w.id, p)
    \/ \E e \in entries : delete_entry(1, e)

SpecUsers == InitUsers /\ [][NextUsers]_vars

------------------------------------------------------------------------------
(* SpecRace: two requests of one user that overlap.  The endpoints are plain
   def handlers, each on a connection of its own (db(), lines 75-83), and no
   lock is taken per user: a request reads (get_or_create_today_entry, the
   SELECT of clock_state, the decision) and later writes what it decided
   from what it read, while the other request may read or write in between.
   args holds the tables both requests started from and what each has read. *)

RaceOps == {"clock_in", "clock_break"}

RaceIdle == [ph |-> "idle", op |-> "", snap |-> Db0, w |-> WeekNone, ro |-> RowNone]

\* what today left of the tables d: a clock-in at t_in, then a break started
\* at t_break that is still running
RunningToday(d, uid, t_in, t_break) ==
    {ClockBreak(ClockIn(d, uid, w, ro, Today, t_in).db, uid, w, Today, t_break).db :
        w \in get_week_for_today_strict(d, uid, Today),
        ro \in roster_for_date(d, uid, Today)}

RaceDbs ==
    {RosterSetup("A"), Seeded(CreateWeek(Db0, 1, 1, Yesterday))}
    \cup LeftRunning(RosterSetup("A"), 1, hhmm_to_min(<<9, 50>>), hhmm_to_min(<<19, 30>>))
    \cup RunningToday(RosterSetup("A"), 1, hhmm_to_min(<<9, 50>>), hhmm_to_min(<<9, 50>>))

InitRace ==
    /\ pc = "start"
    /\ loc = NoLoc
    /\ ret = Resp
    /\ \E d \in RaceDbs :
          /\ InitDb(d)
          /\ args = [uid |-> 1, base |-> d, reqs |-> <<RaceIdle, RaceIdle>>]
    /\ today = Today
    /\ now \in ClockTimes

\* the statements of clock_in (lines 2462-2483) as decided from the tables
\* snap the request read, executed on the tables cur as they are by then
ApplyIn(cur, snap, uid, w, ro, tdy, nw) ==
    LET e == TheEntry(snap, uid, w.id, tdy)
        official_in == IF ro.found THEN ro.shift_in ELSE None
        dec == decide_clock_time("IN", hhmm_now(nw), official_in, e.extra_authorized = 1)
        mult == multiplier_for_date(snap, uid, tdy)
        ec == TheEntry(cur, uid, w.id, tdy)
        dE == UpdateEntry(cur, ec, [ec EXCEPT !.time_in = dec.store, !.time_out = None,
                                              !.multiplier = mult])
    IN  IF Committed(ClockIn(snap, uid, w, ro, tdy, nw).resp)
        THEN [db |-> PutState(dE, uid, InState(dE, uid, w, tdy, dec.store, e.break_minutes)),
              resp |-> Resp]
        ELSE [db |-> cur, resp |-> ClockIn(snap, uid, w, ro, tdy, nw).resp]

\* the statements of clock_break (lines 2593-2645) as decided from the
\* tables snap the request read, executed on the tables cur
ApplyBreak(cur, snap, uid, w, tdy, nw) ==
    LET e == TheEntry(snap, uid, w.id, tdy)
        S == StateRowsOn(snap, uid, tdy)
        st == CHOOSE x \in S : TRUE
        new_break == st.break_minutes + Max(0, Elapsed(st.break_start, tdy, nw))
        C == StateRows(cur, uid)
        sc == CHOOSE x \in C : TRUE
        ec == TheEntry(cur, uid, w.id, tdy)
    IN  IF S = {}
        THEN IF C # {}
             \* the plain INSERT is refused by the primary key user_id
             THEN [db |-> cur, resp |-> RespServerError]
             ELSE [db |-> PutState(cur, uid,
                              StartBreak(FreshState(uid, w, tdy, e.time_in, e.time_out,
                                                    e.break_minutes), tdy, nw)),
                   resp |-> [Resp EXCEPT !.break_running = TRUE]]
        ELSE IF st.break_running # 1
        THEN [db |-> PutState(cur, uid, StartBreak(sc, tdy, nw)),
              resp |-> [Resp EXCEPT !.break_running = TRUE]]
        ELSE IF ~Truthy(st.break_start)
        THEN [db |-> PutState(cur, uid, [sc EXCEPT !.break_running = 0, !.break_start = None]),
              resp |-> Resp]
        ELSE [db |-> PutState(UpdateEntry(cur, ec, [ec EXCEPT !.break_minutes = new_break]),
                              uid, [sc EXCEPT !.break_running = 0, !.break_start = None,
                                              !.break_minutes = new_break]),
              resp |-> [Resp EXCEPT !.break_minutes = new_break]]

\* request i of the user starts the operation op: get_or_create_today_entry
\* (which commits), then the reads the handler decides from
race_read(i, op) ==
    /\ args.reqs[i].ph = "idle"
    /\ \E w \in get_week_for_today_strict(Db, args.uid, today),
          ro \in roster_for_date(Db, args.uid, today) :
          /\ w.found
          /\ LET d1 == get_or_create_today_entry(Db, args.uid, w.id, today)
             IN  /\ SetDb(d1)
                 /\ args' = [args EXCEPT !.reqs[i] =
                                [ph |-> "read", op |-> op, snap |-> d1, w |-> w, ro |-> ro]]
    /\ pc' = "race_read"
    /\ UNCHANGED <<loc, ret, wall>>

\* request i executes its statements and commits
race_write(i) ==
    LET q == args.reqs[i]
        r == IF q.op = "clock_in"
             THEN ApplyIn(Db, q.snap, args.uid, q.w, q.ro, today, now)
             ELSE ApplyBreak(Db, q.snap, args.uid, q.w, today, now)
    IN  /\ q.ph = "read"
        /\ SetDb(r.db)
        /\ ret' = r.resp
        /\ args' = [args EXCEPT !.reqs[i].ph = "done"]
        /\ pc' = "race_write"
        /\ UNCHANGED <<loc, wall>>

NextRace ==
    \/ \E i \in 1..2, op \in RaceOps : race_read(i, op)
    \/ \E i \in 1..2 : race_write(i)

SpecRace == InitRace /\ [][NextRace]_vars

------------------------------------------------------------------------------
(* Properties of the frozen multiplier (SpecHoliday) *)

\* rows e and e2 are the same entry: same user, week and date
SameEntry(e, e2) ==
    e.user_id = e2.user_id /\ e.week_id = e2.week_id /\ e.work_date = e2.work_date

\* C12: the multiplier is frozen on the entry: patch_bh changes no entry and
\* no entry's reported line (minutes, multiplier, pay); the stored multiplier of an existing entry changes only in a step of clock_in
\* or clock_out on the entry's day or of upsert_entry for its date; and
\* get_week reports the stored multiplier of every entry and weighs its
\* minutes with it, whatever the bank holiday row says by then.
C12_MultiplierFrozen ==
    [][ /\ pc' = "patch_bh" =>
              /\ entries' = entries
              /\ \A r \in entries : \A ro \in roster_for_date(Db, r.user_id, r.work_date) :
                    WeekLine([Db EXCEPT !.bank_holidays = bank_holidays'],
                             r.user_id, r, ro) = WeekLine(Db, r.user_id, r, ro)
        /\ \A e \in entries : \A e2 \in entries' :
              (SameEntry(e, e2) /\ e2.multiplier # e.multiplier) =>
                  \/ pc' \in {"clock_in", "clock_out"} /\ e.work_date = today
                  \/ pc' = "upsert_entry" /\ args'.p.work_date = e.work_date
        /\ pc' = "get_week" =>
              /\ \A r \in entries :
                    (r.user_id = args'.uid /\ r.week_id = args'.week_id) =>
                        \E line \in ret'.entries :
                            /\ line.work_date = r.work_date
                            /\ line.multiplier = r.multiplier
                            /\ line.pay_units = line.minutes * r.multiplier
              /\ \A line \in ret'.entries :
                    \E r \in entries :
                        /\ r.user_id = args'.uid /\ r.week_id = args'.week_id
                        /\ r.work_date = line.work_date
    ]_vars

\* the week is listed after the holiday status changed: a worked entry is
\* reported with its stored multiplier, which is no longer the one of its date
C12_Witness ==
    /\ pc = "get_week"
    /\ \E line \in ret.entries :
          /\ line.minutes > 0
          /\ line.multiplier # multiplier_for_date(Db, args.uid, line.work_date)
          /\ \E r \in entries : r.work_date = line.work_date /\ r.multiplier = line.multiplier

------------------------------------------------------------------------------
(* Properties of the clock state (Spec) *)

\* C13: in every reachable state the clock state of each user has break_start
\* set whenever break_running is 1.
C13_RunningBreakHasStart ==
    \A st \in clock_state : st.break_running = 1 => Truthy(st.break_start)

\* a break is running on today's clock state after a manual upsert of
\* today's entry went through the state row
C13_Witness ==
    /\ pc = "upsert_entry"
    /\ \E st \in clock_state :
          st.work_date = today /\ st.break_running = 1 /\ Truthy(st.break_start)

\* C14: mirror consistency: after any completed operation, whenever a clock
\* state dated today and an entry for today both exist for a user, the clock
\* state's in_time, out_time and break_minutes equal the entry's time_in,
\* time_out and break_minutes.
C14_MirrorConsistency ==
    \A st \in clock_state : \A e \in entries :
        (st.work_date = today /\ e.work_date = today /\ e.user_id = st.user_id) =>
            /\ st.in_time = e.time_in
            /\ st.out_time = e.time_out
            /\ st.break_minutes = e.break_minutes

\* the clock operations
ClockOps == {"clock_in", "clock_out", "clock_break", "clock_today"}

\* the break minutes today's entry of uid holds, 0 when it does not exist yet
TodayBreak(E, uid) ==
    LET T == {e \in E : e.user_id = uid /\ e.work_date = today}
    IN  IF T = {} THEN 0 ELSE (CHOOSE e \in T : TRUE).break_minutes

\* C15: day rollover: when the stored clock state of a user is dated earlier
\* than today, the first clock operation of the new day (clock_in, clock_out,
\* clock_break or clock_today) succeeds and, unless it answers pending or
\* ignored, leaves a clock state dated today in which nothing of the previous
\* day survives: no break started before today is running, in_time and
\* out_time are those of today's entry, and the break total is the one
\* today's entry had, without minutes of the break started the day before.
C15_DayRollover ==
    [][ \A uid \in ClockUsers :
          ( /\ pc' \in ClockOps
            /\ args'.uid = uid
            /\ args'.w.found
            /\ \E s \in clock_state : s.user_id = uid /\ s.work_date < today ) =>
              /\ ret'.code = 200
              /\ Committed(ret') =>
                    \E st \in clock_state' :
                        /\ st.user_id = uid
                        /\ st.work_date = today
                        /\ st.break_running = 1 => st.break_start[1] = today
                        /\ st.break_minutes = TodayBreak(entries, uid)
                        /\ \A e \in entries' :
                              (e.user_id = uid /\ e.work_date = today) =>
                                  /\ st.in_time = e.time_in
                                  /\ st.out_time = e.time_out
                                  /\ e.break_minutes = TodayBreak(entries, uid)
    ]_vars

------------------------------------------------------------------------------
(* Properties of clock-in and clock-out (Spec) *)

\* C16: a clock_in or clock_out that answers needs_extra_confirm commits no
\* punch: the whole clock state and every existing entry (time_in, time_out,
\* break_minutes, multiplier, extra_checked, extra_authorized) are the same
\* after the call as before it; when today's entry did not exist yet, the
\* only row added is its blank form (no times, no break, flags 0, the
\* multiplier of the date).
C16_PendingCommitsNothing ==
    [][ (pc' \in {"clock_in", "clock_out"} /\ ret'.needs_extra_confirm) =>
            /\ clock_state' = clock_state
            /\ entries \subseteq entries'
            /\ \A e \in entries' \ entries :
                  /\ e.user_id = args'.uid /\ e.work_date = today
                  /\ ~\E o \in entries : SameEntry(o, e)
                  /\ e.time_in = None /\ e.time_out = None /\ e.break_minutes = 0
                  /\ e.extra_checked = 0 /\ e.extra_authorized = 0
                  /\ e.multiplier = multiplier_for_date(Db, args'.uid, today)
    ]_vars

\* a late clock-out was answered with the question while the clock state
\* holds the clock-in of the day: the state is still without out_time
C16_Witness ==
    /\ pc = "clock_out"
    /\ ret.needs_extra_confirm
    /\ ret.reason = "LATE_OUT"
    /\ clock_state = args.st
    /\ \E st \in clock_state :
          st.work_date = today /\ Truthy(st.in_time) /\ ~Truthy(st.out_time)
    /\ \E e \in entries :
          e.work_date = today /\ Truthy(e.time_in) /\ ~Truthy(e.time_out)

\* C17: on a day off whose entry has extra_checked = 1 and extra_authorized
\* = 0, every clock_in and clock_out is ignored: the call reports ignored and
\* changes neither an entry nor the clock state, so repeating it changes
\* nothing either.
C17_UnauthorizedDayOffIgnored ==
    [][ ( /\ pc' \in {"clock_in", "clock_out"}
          /\ args'.w.found
          /\ args'.ro.found /\ args'.ro.day_off = 1
          /\ \E e \in entries :
                /\ e.user_id = args'.uid /\ e.week_id = args'.w.id /\ e.work_date = today
                /\ e.extra_checked = 1 /\ e.extra_authorized = 0 ) =>
            /\ ret'.code = 200 /\ ret'.ignored /\ ~ret'.needs_extra_confirm
            /\ entries' = entries
            /\ clock_state' = clock_state
    ]_vars

\* a punch on a day off was ignored after the user answered "not authorized"
C17_Witness ==
    /\ pc \in {"clock_in", "clock_out"}
    /\ ret.ignored
    /\ args.ro.found /\ args.ro.day_off = 1
    /\ \E e \in entries :
          /\ e.work_date = today /\ e.extra_checked = 1 /\ e.extra_authorized = 0
          /\ e.time_in = None /\ e.time_out = None

\* the step is a clock_in of uid on a rostered working day, today's entry
\* has extra_checked = 0 (or does not exist yet)
UncheckedInOnShift(uid) ==
    /\ pc' = "clock_in"
    /\ args'.uid = uid
    /\ args'.w.found
    /\ args'.ro.found /\ args'.ro.day_off = 0 /\ Truthy(args'.ro.shift_in)
    /\ \A e \in entries :
          (e.user_id = uid /\ e.week_id = args'.w.id /\ e.work_date = today) =>
              e.extra_checked = 0

\* the minutes from the official IN of that step to the real time
InDiff == now - hhmm_to_min(args'.ro.shift_in)

\* the step committed no punch: the clock state and the existing entries are
\* as before, and an entry it created has no time_in
NoPunch ==
    /\ clock_state' = clock_state
    /\ entries \subseteq entries'
    /\ \A e \in entries' \ entries : e.time_in = None /\ e.time_out = None

\* C18 as stated: on a rostered working day whose entry has extra_checked =
\* 0, a clock_in more than 5 minutes away from the official IN, earlier or
\* later, returns needs_extra_confirm and does not commit the punch.
C18_DeviationAlwaysAsks ==
    [][ \A uid \in ClockUsers :
          (UncheckedInOnShift(uid) /\ Abs(InDiff) > TOLERANCE_MIN) =>
              ret'.needs_extra_confirm /\ NoPunch
    ]_vars

\* C18: on a rostered working day whose entry has extra_checked = 0, a
\* clock_in more than 5 minutes before the official IN returns
\* needs_extra_confirm (reason EARLY_IN) and does not commit the punch; a
\* clock_in more than 5 minutes after the official IN is committed at once,
\* with the real time as time_in.
C18_EarlyInAsks ==
    [][ \A uid \in ClockUsers :
          UncheckedInOnShift(uid) =>
              /\ InDiff < -TOLERANCE_MIN =>
                    /\ ret'.needs_extra_confirm /\ ret'.reason = "EARLY_IN"
                    /\ ret'.official = args'.ro.shift_in /\ ret'.real = hhmm_now(now)
                    /\ NoPunch
              /\ InDiff > TOLERANCE_MIN =>
                    /\ Committed(ret')
                    /\ \E e \in entries' :
                          /\ e.user_id = uid /\ e.work_date = today
                          /\ e.time_in = hhmm_now(now)
    ]_vars

\* an early clock-in on a working day was answered with the question and
\* today's entry is still without time_in
C18_Witness ==
    /\ pc = "clock_in"
    /\ ret.needs_extra_confirm /\ ret.reason = "EARLY_IN"
    /\ args.ro.found /\ args.ro.day_off = 0
    /\ now < hhmm_to_min(args.ro.shift_in) - TOLERANCE_MIN
    /\ \E e \in entries : e.work_date = today /\ e.extra_checked = 0 /\ e.time_in = None

\* today's entries of the user of the last call
TodayEntries == {e \in entries : e.user_id = args.uid /\ e.work_date = today}

\* the official IN the last clock_in found
OfficialIn == IF args.ro.found THEN args.ro.shift_in ELSE None

\* C19: every clock_in that commits leaves today's entry with time_in set to
\* the decided time, time_out cleared and multiplier = multiplier_for_date
\* (today), and leaves the clock state dated today with in_time equal to the
\* entry's time_in, out_time empty, break_running = 0 and break_start empty,
\* whatever the clock state held before the call.
C19_CommittedClockIn ==
    (pc = "clock_in" /\ Committed(ret)) =>
        /\ TodayEntries # {}
        /\ \A e \in TodayEntries :
              /\ e.time_in = decide_clock_time("IN", hhmm_now(now), OfficialIn,
                                               e.extra_authorized = 1).store
              /\ Truthy(e.time_in)
              /\ e.time_out = None
              /\ e.multiplier = multiplier_for_date(Db, args.uid, today)
              /\ \E st \in clock_state : st.user_id = args.uid
              /\ \A st \in clock_state :
                    st.user_id = args.uid =>
                        /\ st.work_date = today
                        /\ st.in_time = e.time_in
                        /\ st.out_time = None
                        /\ st.break_running = 0
                        /\ st.break_start = None

\* a clock-in was committed while a break was running and after a clock-out
\* had been recorded today: the state it found is in args.st
C19_Witness ==
    /\ pc = "clock_in" /\ Committed(ret)
    /\ \E s \in args.st :
          s.work_date = today /\ s.break_running = 1 /\ Truthy(s.out_time)
    /\ \E st \in clock_state : st.break_running = 0 /\ st.out_time = None

\* C20: the time stored by a committed clock_in is the official IN when the
\* real time is within 5 minutes of it, or when the punch is unauthorized and
\* more than 5 minutes early (which commits only once the user was asked),
\* and the real time otherwise (authorized, late, or no official IN); so the
\* clock_in resubmitted after the answer authorized = false to an early punch
\* commits time_in = official IN.
C20_StoredInTime ==
    (pc = "clock_in" /\ Committed(ret)) =>
        \A e \in TodayEntries :
            LET real == hhmm_now(now)
                authorized == e.extra_authorized = 1
            IN  IF ~Truthy(OfficialIn) THEN e.time_in = real
                ELSE LET diff == now - hhmm_to_min(OfficialIn)
                     IN  /\ Abs(diff) <= TOLERANCE_MIN => e.time_in = OfficialIn
                         /\ (diff < -TOLERANCE_MIN /\ ~authorized) =>
                                e.time_in = OfficialIn /\ e.extra_checked = 1
                         /\ (diff < -TOLERANCE_MIN /\ authorized) => e.time_in = real
                         /\ diff > TOLERANCE_MIN => e.time_in = real

\* scenario B: official IN 09:45, clock-in at 09:20 resubmitted after the
\* answer authorized = false: committed with time_in 09:45
C20_WitnessScenarioB ==
    /\ pc = "clock_in" /\ Committed(ret)
    /\ OfficialIn = <<9, 45>>
    /\ hhmm_now(now) = <<9, 20>>
    /\ \E e \in TodayEntries :
          e.extra_checked = 1 /\ e.extra_authorized = 0 /\ e.time_in = <<9, 45>>

------------------------------------------------------------------------------
(* Properties of breaks (SpecBreak) *)

\* the whole minutes from the moment bs = <<day, minute>> to the wall clock
SinceStart(bs) == (today - bs[1]) * 1440 + (now - bs[2])

\* C21: every clock_out that commits while a break is running first stops
\* the break: the whole minutes elapsed since break_start, never less than
\* 0, are added to the break total of the clock state, break_running and
\* break_start are cleared, and that new total is stored in both the clock
\* state and today's entry, beside the out-time the call commits.
C21_ClockOutStopsBreak ==
    [][ \A s \in clock_state :
          ( /\ pc' = "clock_out" /\ Committed(ret')
            /\ s.user_id = args'.uid
            /\ s.break_running = 1 ) =>
              LET add == IF SinceStart(s.break_start) < 0 THEN 0
                         ELSE SinceStart(s.break_start)
                  total == s.break_minutes + add
              IN  /\ \E st \in clock_state' : st.user_id = s.user_id
                  /\ \A st \in clock_state' :
                        st.user_id = s.user_id =>
                            /\ st.break_running = 0
                            /\ st.break_start = None
                            /\ st.break_minutes = total
                            /\ Truthy(st.out_time)
                            /\ \E e \in entries' :
                                  /\ e.user_id = s.user_id /\ e.work_date = today
                                  /\ e.week_id = args'.w.id
                                  /\ e.break_minutes = total
                                  /\ e.time_out = st.out_time
    ]_vars

\* scenario D: the break started at 13:00 and the clock-out is committed at
\* 13:20: 20 minutes are added to the totals of the state and of the entry
C21_WitnessScenarioD ==
    /\ pc = "clock_out" /\ Committed(ret)
    /\ hhmm_now(now) = <<13, 20>>
    /\ \E s \in args.st : \E st \in clock_state : \E e \in TodayEntries :
          /\ s.break_running = 1
          /\ s.break_start = <<today, hhmm_to_min(<<13, 0>>)>>
          /\ st.break_minutes = s.break_minutes + 20
          /\ e.break_minutes = st.break_minutes
          /\ st.break_running = 0

------------------------------------------------------------------------------
(* Properties of clock-out around the official OUT (SpecOut) *)

\* the official OUT the last clock_out found
OfficialOut == IF args.ro.found THEN args.ro.shift_out ELSE None

\* C22: clock_out mirrors clock_in on the official OUT: with extra_checked =
\* 0, a clock_out more than 5 minutes after the official OUT returns
\* needs_extra_confirm (kind OUT) and commits no punch; a committed clock_out
\* stores the official OUT when the real time is within 5 minutes of it or
\* is unauthorized and more than 5 minutes late, and the real time otherwise
\* (authorized, early, or no official OUT).
C22_ClockOutRule ==
    [][ (pc' = "clock_out" /\ args'.w.found) =>
          LET off == IF args'.ro.found THEN args'.ro.shift_out ELSE None
              unchecked == \A e \in entries :
                              (e.user_id = args'.uid /\ e.week_id = args'.w.id
                                  /\ e.work_date = today) => e.extra_checked = 0
              real == hhmm_now(now)
          IN  /\ ( /\ args'.ro.found /\ args'.ro.day_off = 0 /\ Truthy(off)
                   /\ unchecked
                   /\ now - hhmm_to_min(off) > TOLERANCE_MIN ) =>
                      /\ ret'.needs_extra_confirm /\ ret'.kind = "OUT"
                      /\ ret'.official = off /\ ret'.real = real
                      /\ NoPunch
              /\ Committed(ret') =>
                    \A e \in entries' :
                        (e.user_id = args'.uid /\ e.week_id = args'.w.id
                            /\ e.work_date = today) =>
                            IF ~Truthy(off) THEN e.time_out = real
                            ELSE LET diff == now - hhmm_to_min(off)
                                     authorized == e.extra_authorized = 1
                                 IN  /\ Abs(diff) <= TOLERANCE_MIN => e.time_out = off
                                     /\ (diff > TOLERANCE_MIN /\ ~authorized) =>
                                            e.time_out = off /\ e.extra_checked = 1
                                     /\ (diff > TOLERANCE_MIN /\ authorized) =>
                                            e.time_out = real
                                     /\ diff < -TOLERANCE_MIN => e.time_out = real
    ]_vars

\* a clock-out at 19:30 against the official OUT 19:00 was committed after
\* the answer authorized = false: the stored out-time is 19:00
C22_Witness ==
    /\ pc = "clock_out" /\ Committed(ret)
    /\ OfficialOut = <<19, 0>>
    /\ hhmm_now(now) = <<19, 30>>
    /\ \E e \in TodayEntries :
          e.extra_checked = 1 /\ e.extra_authorized = 0 /\ e.time_out = <<19, 0>>

------------------------------------------------------------------------------
(* Properties of the break toggle (SpecBreak) *)

\* what a clock_break step of a user with a week does to the break: started
\* when none was running, stopped and folded in when one was
BreakToggled ==
    LET uid == args'.uid
        S == {s \in clock_state : s.user_id = uid}
        Mine(E) == {e \in E : e.user_id = uid /\ e.week_id = args'.w.id /\ e.work_date = today}
    IN  /\ ret'.code = 200
        /\ \E st \in clock_state' : st.user_id = uid
        /\ Mine(entries') # {}
        /\ \A st \in clock_state' :
              st.user_id = uid =>
                  IF \E s \in S : s.break_running = 1
                  THEN \A s \in S :
                          LET add == IF SinceStart(s.break_start) < 0 THEN 0
                                     ELSE SinceStart(s.break_start)
                          IN  /\ st.break_running = 0
                              /\ st.break_start = None
                              /\ st.break_minutes = s.break_minutes + add
                              /\ \A e \in Mine(entries') : e.break_minutes = st.break_minutes
                  ELSE /\ st.break_running = 1
                       /\ st.break_start = <<today, now>>
                       /\ \A s \in S : st.break_minutes = s.break_minutes
                       /\ \A e \in Mine(entries) : e \in entries'
                       /\ \A e \in Mine(entries') : e.break_minutes = TodayBreak(entries, uid)

\* C23: break toggle: when no break is running it sets break_running = 1 and
\* break_start = now and changes no break total; when a break is running it
\* clears break_running and break_start and adds the whole minutes elapsed
\* since break_start, never less than 0, to the break total, storing the
\* same new total in the clock state and in today's entry.
C23_BreakToggle ==
    [][ (pc' = "clock_break" /\ args'.w.found) => BreakToggled ]_vars

------------------------------------------------------------------------------
(* Properties of the confirmation (Spec) *)

\* the entries of E that a confirmation with the arguments a is about
ConfirmedEntries(E, a) ==
    {e \in E : e.user_id = a.uid /\ e.week_id = a.w.id /\ e.work_date = a.p.work_date}

\* C24: extra-confirm for a date sets that entry's extra_checked = 1 and
\* extra_authorized = the given boolean and performs no clock transition:
\* the entry's time_in, time_out, break_minutes (and multiplier), every other
\* entry and the whole clock state are unchanged by it.
C24_ConfirmOnlyFlags ==
    [][ (pc' = "clock_extra_confirm" /\ args'.w.found) =>
          /\ ret'.code = 200
          /\ clock_state' = clock_state
          /\ entries' \ ConfirmedEntries(entries', args')
                = entries \ ConfirmedEntries(entries, args')
          /\ ConfirmedEntries(entries', args') # {}
          /\ \A e2 \in ConfirmedEntries(entries', args') :
                /\ e2.extra_checked = 1
                /\ e2.extra_authorized = (IF args'.p.authorized THEN 1 ELSE 0)
                /\ \A e \in ConfirmedEntries(entries, args') :
                      /\ e2.time_in = e.time_in /\ e2.time_out = e.time_out
                      /\ e2.break_minutes = e.break_minutes
                      /\ e2.multiplier = e.multiplier
                /\ ConfirmedEntries(entries, args') = {} =>
                      e2.time_in = None /\ e2.time_out = None /\ e2.break_minutes = 0
    ]_vars

\* an early punch was authorized while a break was running: the flags are
\* set, the entry has no time_in yet and the break is still running
C24_Witness ==
    /\ pc = "clock_extra_confirm"
    /\ args.p.authorized
    /\ \E e \in ConfirmedEntries(entries, args) :
          e.extra_checked = 1 /\ e.extra_authorized = 1 /\ e.time_in = None
    /\ \E st \in clock_state : st.work_date = today /\ st.break_running = 1

------------------------------------------------------------------------------
(* Properties of the manual edit (Spec) *)

------------------------------------------------------------------------------
(* Properties of failing transitions (SpecFail) *)

\* today's entries and clock state rows of the user of the step
MineAfter(E) == {e \in E : e.user_id = args'.uid /\ e.week_id = args'.w.id /\ e.work_date = today}

StateAfter == {st \in clock_state' : st.user_id = args'.uid}

\* C26: atomic transitions: a clock_in, clock_out or break toggle that fails
\* part-way applies none of its changes (the clock state and the existing
\* entries are as before; at most today's entry exists in blank form), and
\* one that commits has written both records: the entry's time_in and the
\* state's in_time, the entry's time_out and the state's out_time, the break
\* total of the entry and of the state.
C26_AtomicTransitions ==
    [][ /\ ( \/ pc' \in {"clock_in_fails", "clock_out_fails", "clock_break_fails"}
             \/ pc' \in {"clock_in", "clock_out", "clock_break"} /\ ret'.code = 500 ) =>
              /\ NoPunch
              /\ \A e \in entries' \ entries : e.break_minutes = 0
        /\ (pc' = "clock_in" /\ Committed(ret')) =>
              /\ StateAfter # {} /\ MineAfter(entries') # {}
              /\ \A st \in StateAfter : \A e \in MineAfter(entries') :
                    /\ Truthy(e.time_in) /\ st.in_time = e.time_in
                    /\ e.time_out = None /\ st.out_time = None
        /\ (pc' = "clock_out" /\ Committed(ret')) =>
              /\ StateAfter # {} /\ MineAfter(entries') # {}
              /\ \A st \in StateAfter : \A e \in MineAfter(entries') :
                    /\ Truthy(e.time_out) /\ st.out_time = e.time_out
                    /\ st.break_minutes = e.break_minutes
        /\ ( /\ pc' = "clock_break" /\ ret'.code = 200 /\ args'.w.found
             /\ \E s \in clock_state : s.user_id = args'.uid /\ s.break_running = 1 ) =>
              \A st \in StateAfter : \A e \in MineAfter(entries') :
                    st.break_running = 0 /\ st.break_minutes = e.break_minutes
    ]_vars

\* a clock-out failed part-way while a break was running: the break is
\* still running on the clock state and the entry has no out-time
C26_Witness ==
    /\ pc = "clock_out_fails"
    /\ clock_state = args.st
    /\ \E st \in clock_state : st.work_date = today /\ st.break_running = 1
    /\ \E e \in TodayEntries : e.time_out = None /\ Truthy(e.time_in)

------------------------------------------------------------------------------
(* Properties of overlapping requests (SpecRace) *)

\* the operation of the request q run by itself on the tables d
RunAlone(d, q) ==
    IF q.op = "clock_in" THEN ClockIn(d, args.uid, q.w, q.ro, today, now).db
    ELSE ClockBreak(d, args.uid, q.w, today, now).db

\* the tables after the two requests one after the other, in either order
SerialOutcomes ==
    {RunAlone(RunAlone(args.base, args.reqs[1]), args.reqs[2]),
     RunAlone(RunAlone(args.base, args.reqs[2]), args.reqs[1])}

\* C27: concurrent requests of the same user are serialized: when two clock
\* operations of one user have overlapped, the final entries and clock state
\* equal those of running the two operations one after the other in some
\* order.
C27_Serialized ==
    (pc = "race_write" /\ \A i \in 1..2 : args.reqs[i].ph = "done") =>
        \E d \in SerialOutcomes :
            entries = d.entries /\ clock_state = d.clock_state

------------------------------------------------------------------------------
(* Properties of retries (Spec) *)

\* the tables after the operation that was just executed is repeated at
\* once, with the same clock reading
Retried ==
    IF pc = "clock_in" THEN ClockIn(Db, args.uid, args.w, args.ro, today, now).db
    ELSE IF pc = "clock_out" THEN ClockOut(Db, args.uid, args.w, args.ro, today, now).db
    ELSE ClockBreak(Db, args.uid, args.w, today, now).db

\* the repetition leaves the entries and the clock state as they are
RetryChangesNothing ==
    Retried.entries = entries /\ Retried.clock_state = clock_state

\* C28: retries are idempotent: repeating a clock_in, a clock_out or a break
\* toggle immediately (same clock reading, no other operation in between)
\* leaves the entries and the clock state exactly as they were after the
\* first execution.
C28_RetriesIdempotent ==
    pc \in {"clock_in", "clock_out", "clock_break"} => RetryChangesNothing

------------------------------------------------------------------------------
(* Properties of the week lookup (SpecWeek) *)

\* the operations that answer "Create a week first"
NeedWeek == {"clock_in", "clock_out", "clock_break", "clock_extra_confirm"}

\* the weeks of the user of the step, and those of them that cover today
WeeksOf(uid) == {w \in weeks : w.user_id = uid}

CoveringToday(uid) == {w \in WeeksOf(uid) : w.start_date <= today /\ today <= w.start_date + 6}

\* the step failed with the error and changed no entry and no clock state
CreateWeekFirst ==
    /\ ret'.code = 400 /\ ~ret'.has_week
    /\ entries' = entries
    /\ clock_state' = clock_state

\* C29 as stated: when none of the user's weeks covers today's date,
\* clock_in, clock_out, clock_break and extra-confirm fail with the "create
\* a week first" error and change no entry and no clock state.
C29_NoCoveringWeekFails ==
    [][ (pc' \in NeedWeek /\ CoveringToday(args'.uid) = {}) => CreateWeekFirst ]_vars

\* C29: when the user has no week at all, clock_in, clock_out, clock_break
\* and extra-confirm fail with the "create a week first" error and change
\* no entry and no clock state; when the user has weeks but none covers
\* today, they do not fail with it: they run against the latest week that
\* started before today or, when all are later, against the earliest one.
C29_NoWeekFails ==
    [][ pc' \in NeedWeek =>
          LET W == WeeksOf(args'.uid)
              past == {w \in W : w.start_date <= today}
          IN  /\ W = {} => CreateWeekFirst
              /\ W # {} =>
                    /\ ret'.code # 400
                    /\ args'.w.found
                    /\ \E w \in W :
                          /\ w.id = args'.w.id
                          /\ CoveringToday(args'.uid) # {} => w \in CoveringToday(args'.uid)
                          /\ (CoveringToday(args'.uid) = {} /\ past # {}) =>
                                w \in past /\ \A o \in past : o.start_date <= w.start_date
                          /\ (CoveringToday(args'.uid) = {} /\ past = {}) =>
                                \A o \in W : w.start_date <= o.start_date
                    /\ \E e \in entries' :
                          e.user_id = args'.uid /\ e.week_id = args'.w.id
    ]_vars

\* a clock-in of a user without any week was refused
C29_Witness ==
    /\ pc = "clock_in"
    /\ ret.code = 400 /\ ~ret.has_week
    /\ WeeksOf(args.uid) = {}
    /\ entries = {} /\ clock_state = {}

------------------------------------------------------------------------------
(* Properties of a confirmation nobody asked for (Spec) *)

\* no confirmation is pending for the date of the body of the step: the user
\* has no entry of that date, or every entry of that date is confirmed
NothingPending ==
    \A e \in entries :
        (e.user_id = args'.uid /\ e.work_date = args'.p.work_date) => e.extra_checked = 1

\* C30: an extra-confirm for a date for which no confirmation is pending
\* creates no entry and changes no extra_checked and no extra_authorized
\* value.
C30_StaleConfirmationNoOp ==
    [][ (pc' = "clock_extra_confirm" /\ NothingPending) => entries' = entries ]_vars

------------------------------------------------------------------------------
(* Properties of the degenerate entries (SpecPay) *)

\* the window of the entry before the final clamp of compute_paid_window
UnclampedWindow ==
    LET a == [official_in |-> ret.m.meta.official_in, official_out |-> ret.m.meta.official_out,
              real_in |-> args.time_in, real_out |-> args.time_out,
              authorized |-> (args.extra_authorized = 1)]
    IN  PW_RoundOut(PW_RoundIn(PW_OutRules(a, PW_InRules(a, PW_Begin(a)))))

\* the paid window of the entry is empty or, before the clamp, inverted
EmptyWindow == EntryBothPunches /\ UnclampedWindow.paid_out <= UnclampedWindow.paid_in

\* C31: for a stored entry with a missing in- or out-punch, or with a
\* zero-length or inverted paid window, minutes_paid_between returns the
\* number 0 as payable minutes, with the reason of its early return when a
\* punch is missing.
C31_DegradesToZero ==
    pc = "done" =>
        /\ ret.m.paid \in Nat
        /\ ~EntryBothPunches => (ret.m.paid = 0 /\ ret.m.reason = "missing_in_or_out")
        /\ EmptyWindow => (ret.m.paid = 0 /\ ret.m.reason = None)

\* an entry whose rounded window is inverted: in 19:05 rounds up to 19:15,
\* out 19:10 rounds down to 19:00
C31_WitnessInverted ==
    /\ pc = "done"
    /\ EntryBothPunches
    /\ UnclampedWindow.paid_out < UnclampedWindow.paid_in
    /\ ret.m.paid = 0

------------------------------------------------------------------------------
(* Properties of two users (SpecUsers) *)

\* the rows of user u in a table T
OwnedBy(T, u) == {r \in T : r.user_id = u}

\* C32: no clock, confirmation or entry operation of one user changes the
\* entries, the clock state, the roster days or the bank-holiday rows (nor
\* the rosters or the weeks) of another user, in whatever order the two
\* users' operations arrive.
C32_CrossUserIndependence ==
    [][ \A u \in BothUsers \ {args'.uid} :
            /\ OwnedBy(entries', u) = OwnedBy(entries, u)
            /\ OwnedBy(clock_state', u) = OwnedBy(clock_state, u)
            /\ OwnedBy(roster_days', u) = OwnedBy(roster_days, u)
            /\ OwnedBy(bank_holidays', u) = OwnedBy(bank_holidays, u)
            /\ OwnedBy(rosters', u) = OwnedBy(rosters, u)
            /\ OwnedBy(weeks', u) = OwnedBy(weeks, u)
    ]_vars

\* user 2 has clocked in while user 1 was on a break, and user 1's break is
\* still running
C32_Witness ==
    /\ pc = "clock_in"
    /\ args.uid = 2
    /\ ret.code = 200 /\ ~ret.needs_extra_confirm
    /\ \E st \in clock_state : st.user_id = 1 /\ st.break_running = 1
    /\ \E st \in clock_state : st.user_id = 2 /\ Truthy(st.in_time)

------------------------------------------------------------------------------
(* Scenario A (SpecPay) *)

\* the entry of Scenario A has been computed: official shift 09:45-19:00
\* (from the roster day or, without one, detected), in 09:50, out 19:03,
\* overtime not authorized
ScenarioA ==
    /\ pc = "done"
    /\ args.time_in = <<9, 50>> /\ args.time_out = <<19, 3>>
    /\ args.extra_authorized = 0
    /\ ret.m.meta.official_in = SHIFT_A_IN /\ ret.m.meta.official_out = SHIFT_A_OUT

\* what Scenario A says of the window and of the break
ScenarioA_Window ==
    /\ ret.m.paid_in_hhmm = <<9, 45>> /\ ret.m.paid_out_hhmm = <<19, 0>>
    /\ ret.m.meta.snap_in /\ ret.m.meta.snap_out
    /\ ret.m.break_effective = Max(60, args.break_minutes)
    /\ ret.break_eff = Max(60, args.break_minutes)

\* C33 as stated: in Scenario A the paid window is 09:45-19:00 with both ends
\* snapped, the effective break is max(60, recorded break), and the payable
\* minutes are 480 minus the effective break.
C33_ScenarioA_480 ==
    ScenarioA => (ScenarioA_Window /\ ret.m.paid = 480 - ret.break_eff)

\* C33: in Scenario A the paid window is 09:45-19:00 with both ends snapped,
\* the effective break is max(60, recorded break), and the payable minutes
\* are the 555 minutes of that window minus the effective break.
C33_ScenarioA ==
    ScenarioA => (ScenarioA_Window /\ ret.m.paid = 555 - ret.break_eff)

\* Scenario A with a recorded break above 60 minutes, taken off the 555
C33_Witness ==
    /\ ScenarioA
    /\ args.break_minutes > 60
    /\ ret.m.paid = 555 - args.break_minutes

------------------------------------------------------------------------------
(* Properties of the rounding helpers (SpecRound) *)

\* C34: with step 15, round_ceil(round_ceil(m)) = round_ceil(m) and
\* round_floor(round_floor(m)) = round_floor(m) for every minute value m, and
\* a value already on a 15-minute mark is returned unchanged by both.
C34_RoundingIdempotent ==
    /\ pc = "again" => (ret.ceil = args.ceil /\ ret.floor = args.floor)
    /\ (pc = "once" /\ IsMultiple(args.mins)) =>
            (ret.ceil = args.mins /\ ret.floor = args.mins)

\* 19:03 went up to 19:15 and down to 19:00, and both stayed there
C34_Witness ==
    /\ pc = "again"
    /\ args.mins = hhmm_to_min(<<19, 3>>)
    /\ ret.ceil = hhmm_to_min(<<19, 15>>) /\ ret.floor = hhmm_to_min(<<19, 0>>)

------------------------------------------------------------------------------
(* Properties of the entries table (SpecEdit) *)

\* C35: in every reachable state there is at most one entry per user and
\* calendar date, whatever clock operations, confirmations and manual edits
\* (into any week of the user) produced it.
C35_OneEntryPerDate ==
    \A e1, e2 \in entries :
        (e1.user_id = e2.user_id /\ e1.work_date = e2.work_date) => e1 = e2

------------------------------------------------------------------------------
(* Properties of the daily cycle (Spec) *)

\* the clock-state rows S of today are in one of the states Idle, ClockedIn,
\* OnBreak, ClockedOut: a running break has an in-time and no out-time, and
\* an out-time has an in-time
DailyCycle(S) ==
    \A st \in S :
        st.work_date = today =>
            /\ st.break_running = 1 => (Truthy(st.in_time) /\ ~Truthy(st.out_time))
            /\ Truthy(st.out_time) => Truthy(st.in_time)

\* C36: clock-in, clock-out and the break toggle keep today's clock state
\* within Idle -> ClockedIn -> OnBreak <-> ClockedIn -> ClockedOut: from a
\* state of the cycle they lead to a state of the cycle (no break from Idle
\* or ClockedOut, no clock-out without a clock-in).
C36_DailyCycle ==
    [][ (pc' \in {"clock_in", "clock_out", "clock_break"} /\ DailyCycle(clock_state))
            => DailyCycle(clock_state') ]_vars

------------------------------------------------------------------------------
(* Properties of the returned metadata (SpecPW) *)

\* the boundaries as they enter the rounding block, told from the inputs and
\* the snap and cap flags: the official time when capped, else the real punch
CappedOrRealIn == IF ret.meta.cap_in THEN OffInMin ELSE RealInMin

CappedOrRealOut == IF ret.meta.cap_out THEN PW_OffOut(args) ELSE RealOutMin

NoFlagSet ==
    /\ ~ret.meta.snap_in /\ ~ret.meta.snap_out
    /\ ~ret.meta.cap_in /\ ~ret.meta.cap_out
    /\ ~ret.meta.round_in /\ ~ret.meta.round_out

\* C37: in the metadata compute_paid_window returns for two punches, the snap
\* flag and the cap flag of a side are never both true, the round flag of a
\* side is true exactly when that side was not snapped and rounding changed
\* its value, and when all six flags are false the paid window is the real
\* punches (the out-time of an overnight span counted on the next day).
C37_MetaExplains ==
    (pc = "done" /\ BothPunches) =>
        /\ ~(ret.meta.snap_in /\ ret.meta.cap_in)
        /\ ~(ret.meta.snap_out /\ ret.meta.cap_out)
        /\ ret.meta.round_in <=>
              (~ret.meta.snap_in /\ round_ceil(CappedOrRealIn) # CappedOrRealIn)
        /\ ret.meta.round_out <=>
              (~ret.meta.snap_out /\ round_floor(CappedOrRealOut) # CappedOrRealOut)
        /\ NoFlagSet => (ret.paid_in = RealInMin /\ ret.paid_out = RealOutMin)

\* punches on 15-minute marks away from the official times, overtime
\* authorized: no flag is set and the window is the punches
C37_Witness ==
    /\ pc = "done"
    /\ BothPunches
    /\ Truthy(args.official_in) /\ Truthy(args.official_out)
    /\ RealInMin # OffInMin /\ RealOutMin # OffOutMin
    /\ NoFlagSet
    /\ ret.paid_in = RealInMin /\ ret.paid_out = RealOutMin

------------------------------------------------------------------------------
(* Properties of the confirmation round (Spec) *)

\* C38: once the extra-confirm is recorded on today's entry (extra_checked =
\* 1, with either answer), no clock_in and no clock_out of that day returns
\* needs_extra_confirm: the punch is committed, its time stored on the entry,
\* or, on a day off that was answered "not authorized", ignored.
C38_OneRoundPerDay ==
    [][ (pc' \in {"clock_in", "clock_out"} /\ args'.w.found) =>
          \A e \in entries :
              ( /\ e.user_id = args'.uid /\ e.week_id = args'.w.id /\ e.work_date = today
                /\ e.extra_checked = 1 ) =>
                  /\ ~ret'.needs_extra_confirm
                  /\ ret'.code = 200
                  /\ ret'.ignored <=>
                        (args'.ro.found /\ args'.ro.day_off = 1 /\ e.extra_authorized = 0)
                  /\ ret'.ignored => entries' = entries
                  /\ ~ret'.ignored =>
                        \E e2 \in entries' :
                            /\ e2.user_id = e.user_id /\ e2.week_id = e.week_id
                            /\ e2.work_date = today /\ e2.extra_checked = 1
                            /\ pc' = "clock_in" => Truthy(e2.time_in)
                            /\ pc' = "clock_out" => Truthy(e2.time_out)
    ]_vars

\* a clock-out more than 5 minutes after the official OUT was committed,
\* because the question had been answered
C38_Witness ==
    /\ pc = "clock_out"
    /\ Committed(ret)
    /\ args.ro.found /\ args.ro.day_off = 0 /\ Truthy(args.ro.shift_out)
    /\ now - hhmm_to_min(args.ro.shift_out) > TOLERANCE_MIN
    /\ \E e \in TodayEntries : e.extra_checked = 1 /\ Truthy(e.time_out)

------------------------------------------------------------------------------
(* Properties of the recomputation (SpecDrift) *)

\* the worked minutes minutes_paid_between takes from a window
WorkedMinutes(w) == Max(0, w.paid_out - w.paid_in)

\* the two computations returned the same window
SameWindow ==
    /\ ret.second.ok
    /\ ret.second.paid_in = ret.first.paid_in
    /\ ret.second.paid_out = ret.first.paid_out

\* C39 as stated: for the catalog shifts and every same-day pair of real
\* punches, compute_paid_window on the window it returned (same official
\* shift, same authorized flag) returns the same window.
C39_NoDrift ==
    pc = "second" => SameWindow

\* C39: for the catalog shifts and every same-day pair of real punches whose
\* paid IN is before midnight (a real-in up to 23:45), compute_paid_window on
\* the window it returned returns the same window; for every pair, also those
\* whose paid IN rounds up to 24:00, the worked minutes of the two windows
\* are the same, so the payable minutes recomputed from them are too.
C39_NoDriftBeforeMidnight ==
    pc = "second" =>
        /\ ret.first.paid_in < DAY_MIN => SameWindow
        /\ hhmm_to_min(args.real_in) <= DAY_MIN - ROUND_STEP_MIN => ret.first.paid_in < DAY_MIN
        /\ ret.second.ok
        /\ WorkedMinutes(ret.second) = WorkedMinutes(ret.first)

\* an unauthorized early clock-in and late clock-out, capped to the shift:
\* the shift comes back
C39_Witness ==
    /\ pc = "second"
    /\ ~args.authorized
    /\ ret.first.meta.cap_in /\ ret.first.meta.cap_out
    /\ ret.second.meta.snap_in /\ ret.second.meta.snap_out
    /\ SameWindow
    /\ WorkedMinutes(ret.first) > 0

==============================================================================
